---- MODULE Spec2Model ----
(***************************************************************************)
(* A model of the colour and cascade resolution engine of astro-contrast:  *)
(* the colour parser, the WCAG evaluator, the selector matcher with the    *)
(* pair assembly of buildColorPairs, and the custom-property resolver.     *)
(*                                                                         *)
(* Conventions.  A nullable value of the program is a tuple: << >> is      *)
(* null/undefined and <<x>> is the value x.  A real number is kept as an   *)
(* exact integer multiple of a unit that is named where it is used.        *)
(***************************************************************************)
EXTENDS Integers, Sequences, FiniteSets, TLC

VARIABLES
    pc,         \* the position of the run that the specification models
    elements,   \* HtmlElementInfo[] of the parsed document, in document order
    rules,      \* CssRuleInfo[], the merged rule list
    pairs,      \* buildColorPairs: the ColorPair[] built so far
    lookup,     \* findBestDeclaration: the arguments and the result of a call
    fgIn,       \* evaluateContrast: argument foreground
    bgIn,       \* evaluateContrast: argument background
    sizeIn,     \* evaluateContrast: options.fontSize
    weightIn,   \* evaluateContrast: options.fontWeight
    evalOut,    \* evaluateContrast: the returned WcagEvaluation
    lumOut,     \* relativeLuminance: the returned luminance
    props,      \* resolveCustomProperty: the property map
    callValue,  \* resolveCustomProperty: the value of the top-level call
    stack,      \* resolveCustomProperty: the activation records of the recursion
    ret,        \* resolveCustomProperty: the value returned by the last call
    colorIn,    \* parseColor: the argument
    colorOut,   \* parseColor: what the call returned or threw
    options,    \* analyzeFile: the AnalyzeOptions object shared by the calls
    externalCssRules, \* the rule objects options.externalCssRules refers to
    filePaths,  \* analyzeFiles: the argument filePaths
    fileResults, \* analyzeFiles: the local array results
    filesOut,   \* analyzeFiles: what the call returned or threw
    call,       \* analyzeFile: what the last call was given and merged
    runs,       \* analyzeFile: the calls in flight, each with its position
    cssDisk,    \* resolveLinkedCss: the stylesheets readFile can read
    hrefsIn,    \* resolveLinkedCss: the argument hrefs of the top-level call
    cssStack,   \* resolveLinkedCss: the activation records of the recursion
    seen,       \* resolveLinkedCss: the set of paths shared by the recursion
    reads,      \* resolveLinkedCss: the paths readFile was called with, in order
    cssOut,     \* resolveLinkedCss: what the top-level call returned
    cli,        \* cli run: the parsed arguments and what fast-glob does with them
    exitCode,   \* cli run: the argument of process.exit, once it was called
    mode,       \* watch: which of the two watchers runs (cli or dev server)
    timer,      \* watch: the pending callback of debounceTimer
    analysing,  \* watch: the calls of analyzeFile awaited by fired callbacks
    latestResults, \* dev server: the FileAnalysisResult[] of the dashboard
    watchLog    \* watch: the watcher events and the calls of analyzeFile, in order

vars == <<pc, elements, rules, pairs, lookup, fgIn, bgIn, sizeIn, weightIn,
          evalOut, lumOut, props, callValue, stack, ret, colorIn, colorOut, options,
          externalCssRules, filePaths, fileResults, filesOut, call, runs, cssDisk,
          hrefsIn, cssStack, seen, reads, cssOut, cli, exitCode, mode, timer,
          analysing, latestResults, watchLog>>

pairVars == <<elements, rules, pairs, lookup>>
wcagVars == <<fgIn, bgIn, sizeIn, weightIn, evalOut, lumOut>>
varVars == <<props, callValue, stack, ret>>
colorVars == <<colorIn, colorOut>>
fileVars == <<options, externalCssRules, filePaths, fileResults, filesOut, call, runs>>
cssVars == <<cssDisk, hrefsIn, cssStack, seen, reads, cssOut>>
cliVars == <<cli, exitCode>>
watchVars == <<mode, timer, analysing, latestResults, watchLog>>
hostVars == <<cliVars, watchVars>>
restVars == <<colorVars, fileVars, cssVars, hostVars>>

None == << >>
Some(x) == <<x>>

(***************************************************************************)
(* RgbColor.  r, g, b are channel values; a is the alpha in units of       *)
(* 1/AlphaDen, or NoAlpha when the field is absent.  AlphaDen is a common  *)
(* multiple of 255 (8-digit hex alpha is n/255) and 4 (0.25, 0.5, 0.75),   *)
(* so every alpha of the model is exact, and so is every product below.    *)
(***************************************************************************)
AlphaDen == 4 * 255
NoAlpha == 0 - 1

Rgb(r, g, b) == [r |-> r, g |-> g, b |-> b, a |-> NoAlpha]
Rgba(r, g, b, a) == [r |-> r, g |-> g, b |-> b, a |-> a]

\* Math.round of the non-negative rational n/d: the nearest integer, a half goes up.
Round(n, d) == (2 * n + d) \div (2 * d)

(***************************************************************************)
(* contrast/calculator.ts                                                  *)
(***************************************************************************)
\* Luminances and linearized channels are in units of 1/LumScale.
LumScale == 10 * 10000

\* Math.pow((s + 0.055) / 1.055, 2.4) for s = c/255, c = 0..255, in units of
\* 1/LumScale (entry c + 1 is the value for channel c).
PowSegment == <<
    83, 98, 115, 133, 152, 173, 196, 220, 246, 274, 303, 335, 368, 402, 439, 478,
    518, 561, 605, 651, 700, 750, 802, 857, 913, 972, 1033, 1096, 1161, 1229, 1298, 1370,
    1444, 1521, 1600, 1681, 1764, 1850, 1938, 2029, 2122, 2217, 2315, 2416, 2519, 2624, 2732, 2843,
    2956, 3071, 3190, 3310, 3434, 3560, 3689, 3820, 3955, 4092, 4231, 4374, 4519, 4667, 4817, 4971,
    5127, 5286, 5448, 5613, 5781, 5951, 6125, 6301, 6480, 6663, 6848, 7036, 7227, 7421, 7619, 7819,
    8022, 8228, 8438, 8650, 8866, 9084, 9306, 9531, 9759, 9990, 10224, 10462, 10702, 10946, 11193, 11444,
    11697, 11954, 12214, 12477, 12744, 13014, 13287, 13563, 13843, 14126, 14413, 14703, 14996, 15293, 15593, 15896,
    16203, 16513, 16827, 17144, 17465, 17789, 18116, 18447, 18782, 19120, 19462, 19807, 20156, 20508, 20864, 21223,
    21586, 21953, 22323, 22697, 23074, 23455, 23840, 24228, 24620, 25016, 25415, 25818, 26225, 26636, 27050, 27468,
    27889, 28315, 28744, 29177, 29614, 30054, 30499, 30947, 31399, 31855, 32314, 32778, 33245, 33716, 34191, 34670,
    35153, 35640, 36131, 36625, 37124, 37626, 38133, 38643, 39157, 39676, 40198, 40724, 41254, 41789, 42327, 42869,
    43415, 43966, 44520, 45079, 45641, 46208, 46778, 47353, 47932, 48515, 49102, 49693, 50289, 50888, 51492, 52100,
    52712, 53328, 53948, 54572, 55201, 55834, 56471, 57112, 57758, 58408, 59062, 59720, 60383, 61050, 61721, 62396,
    63076, 63760, 64448, 65141, 65837, 66539, 67244, 67954, 68669, 69387, 70110, 70838, 71569, 72306, 73046, 73791,
    74540, 75294, 76052, 76815, 77582, 78354, 79130, 79910, 80695, 81485, 82279, 83077, 83880, 84687, 85499, 86316,
    87137, 87962, 88792, 89627, 90466, 91310, 92158, 93011, 93869, 94731, 95597, 96469, 97345, 98225, 99110, 100000
>>

\* linearize with the linear segment ending at s = 0.03.
linearize_lowThreshold(channel) ==
    IF channel * 100 <= 3 * 255
    THEN Round(channel * LumScale * 100, 255 * 1292)
    ELSE PowSegment[channel + 1]

linearize(channel) ==
    \* s <= 0.03928 with s = channel / 255, both sides times 255 * 100000
    IF channel * 100000 <= 3928 * 255
    THEN Round(channel * LumScale * 100, 255 * 1292)     \* s / 12.92
    ELSE PowSegment[channel + 1]

relativeLuminance(color) ==
    (2126 * linearize(color.r) + 7152 * linearize(color.g) + 722 * linearize(color.b))
        \div 10000

compositeOnBackground(fg, bg) ==
    LET a == IF fg.a = NoAlpha THEN AlphaDen ELSE fg.a
    IN  IF a >= AlphaDen THEN fg
        ELSE Rgb(Round(fg.r * a + bg.r * (AlphaDen - a), AlphaDen),
                 Round(fg.g * a + bg.g * (AlphaDen - a), AlphaDen),
                 Round(fg.b * a + bg.b * (AlphaDen - a), AlphaDen))

Max(x, y) == IF x >= y THEN x ELSE y
Min(x, y) == IF x <= y THEN x ELSE y

\* contrastRatio without the ordering of the two luminances.
contrastRatio_unordered(fg, bg) ==
    LET compositedFg == compositeOnBackground(fg, bg)
        l1 == relativeLuminance(compositedFg)
        l2 == relativeLuminance(bg)
    IN  [num |-> l1 + LumScale \div 20, den |-> l2 + LumScale \div 20]

\* The ratio is the exact fraction num/den; 0.05 is LumScale \div 20.
contrastRatio(fg, bg) ==
    LET compositedFg == compositeOnBackground(fg, bg)
        l1 == relativeLuminance(compositedFg)
        l2 == relativeLuminance(bg)
        lighter == Max(l1, l2)
        darker == Min(l1, l2)
    IN  [num |-> lighter + LumScale \div 20, den |-> darker + LumScale \div 20]

(***************************************************************************)
(* contrast/color-utils.ts                                                 *)
(*                                                                         *)
(* A colour text is a string; the tables below give, for the texts of the  *)
(* model (all trimmed and in lower case), what the regular expressions and *)
(* substring calls of the parser extract from them.                        *)
(***************************************************************************)
NAMED_COLORS ==
    [n \in {"black", "white", "red"} |->
        CASE n = "black" -> "#000000"
          [] n = "white" -> "#ffffff"
          [] n = "red"   -> "#ff0000"]

\* A character that is not a hexadecimal digit.
NotHex == 4 * 4

\* The characters after the '#' of a text that starts with '#', as digit values.
HexChars ==
    [t \in {"#000000", "#ffffff", "#ff0000", "#767676", "#ff000080", "#fff", "#00000000",
            "#12345", "#ggg"} |->
        CASE t = "#000000"   -> <<0, 0, 0, 0, 0, 0>>
          [] t = "#ffffff"   -> <<15, 15, 15, 15, 15, 15>>
          [] t = "#ff0000"   -> <<15, 15, 0, 0, 0, 0>>
          [] t = "#767676"   -> <<7, 6, 7, 6, 7, 6>>
          [] t = "#ff000080" -> <<15, 15, 0, 0, 0, 0, 8, 0>>
          [] t = "#fff"      -> <<15, 15, 15>>
          [] t = "#00000000" -> <<0, 0, 0, 0, 0, 0, 0, 0>>
          [] t = "#12345"    -> <<1, 2, 3, 4, 5>>
          [] t = "#ggg"      -> <<NotHex, NotHex, NotHex>>]

\* parseInt of two characters in base 16: << >> for NaN; parsing stops at the
\* first character that is not a digit.
ParseInt16(c1, c2) ==
    IF c1 = NotHex THEN None
    ELSE IF c2 = NotHex THEN Some(c1)
    ELSE Some(16 * c1 + c2)

\* h.split('').map(c => c + c).join('')
RECURSIVE Doubled(_)
Doubled(h) == IF h = << >> THEN << >> ELSE <<Head(h), Head(h)>> \o Doubled(Tail(h))

parseHex(hex) ==
    LET h0 == HexChars[hex]
        h == IF Len(h0) \in {3, 4} THEN Doubled(h0) ELSE h0
    IN  IF Len(h) # 6 /\ Len(h) # 8 THEN None
        ELSE LET r == ParseInt16(h[1], h[2])
                 g == ParseInt16(h[3], h[4])
                 b == ParseInt16(h[5], h[6])
             IN  IF r = None \/ g = None \/ b = None THEN None
                 ELSE IF Len(h) = 8
                      \* a = parseInt(..., 16) / 255 (the alpha characters of the
                      \* texts of the model are hexadecimal digits)
                      THEN LET a == ParseInt16(h[7], h[8])
                           IN  Some(Rgba(r[1], g[1], b[1], a[1] * (AlphaDen \div 255)))
                      ELSE Some(Rgb(r[1], g[1], b[1]))

\* The match of the rgb()/rgba() expression of parseRgb: << >> when the text
\* does not match, else the three channel numbers (in tenths) and the alpha
\* group: << >> when absent, else its number in thousandths and whether it
\* ends with '%'.
RgbMatch ==
    [t \in {"rgba(0, 0, 0, 0.5)", "rgb(255 255 255 / 50%)", "rgb(300, 127.5, -5)", "rgb(red)",
            "rgba(0, 0, 0, 1.5)", "rgb(0 0 0 / -20%)"} |->
        CASE t = "rgba(0, 0, 0, 0.5)" ->
                Some([c |-> <<0, 0, 0>>, alpha |-> Some([number |-> 500, percent |-> FALSE])])
          [] t = "rgba(0, 0, 0, 1.5)" ->
                Some([c |-> <<0, 0, 0>>, alpha |-> Some([number |-> 1500, percent |-> FALSE])])
          [] t = "rgb(0 0 0 / -20%)" ->
                Some([c |-> <<0, 0, 0>>,
                      alpha |-> Some([number |-> 0 - 20000, percent |-> TRUE])])
          [] t = "rgb(255 255 255 / 50%)" ->
                Some([c |-> <<2550, 2550, 2550>>,
                      alpha |-> Some([number |-> 50000, percent |-> TRUE])])
          [] t = "rgb(300, 127.5, -5)" ->
                Some([c |-> <<3000, 1275, 0 - 50>>, alpha |-> None])
          [] t = "rgb(red)" -> None]

\* The alpha in units of 1/AlphaDen.
parseAlphaValue(raw) ==
    IF raw.percent THEN (raw.number * AlphaDen) \div (100 * 1000)
    ELSE (raw.number * AlphaDen) \div 1000

\* Math.round(Math.min(255, Math.max(0, x))) of a channel x in tenths
ClampRound(x10) == Round(Min(2550, Max(0, x10)), 10)

parseRgb(value) ==
    LET match == RgbMatch[value]
    IN  IF match = None THEN None
        ELSE LET r == ClampRound(match[1].c[1])
                 g == ClampRound(match[1].c[2])
                 b == ClampRound(match[1].c[3])
             IN  IF match[1].alpha # None
                 THEN Some(Rgba(r, g, b, parseAlphaValue(match[1].alpha[1])))
                 ELSE Some(Rgb(r, g, b))

\* NAMED_COLORS is an object literal: NAMED_COLORS[trimmed] also finds the
\* properties it inherits from Object.prototype.  These are the inherited
\* names made of lower-case characters only; their values are truthy and are
\* not strings.
InheritedKeys == {"constructor", "__proto__"}

\* A call that does not return: the exception it throws.
Threw(error, message) == <<error, message>>
HexOfNonString == Threw("TypeError", "hex.replace is not a function")
IsThrown(outcome) == Len(outcome) = 2

\* The color-mix() texts of the model are made of a first part, and of two
\* colour arguments with or without a percentage.
MixColors == {"white", "black", "banana"}
MixPercents == {None, Some(0), Some(30), Some(80), Some(150)}
PercentText ==
    [p \in {0, 30, 80, 150} |->
        CASE p = 0 -> "0" [] p = 30 -> "30" [] p = 80 -> "80" [] p = 150 -> "150"]
MixArgs == [colorStr : MixColors, pct : MixPercents]
MixArgText(arg) ==
    IF arg.pct = None THEN arg.colorStr
    ELSE arg.colorStr \o " " \o PercentText[arg.pct[1]] \o "%"
\* pctMatch of parseColorMixArg, /\s+([\d.]+)%\s*$/, and the text before it.
ArgMatch ==
    [t \in {MixArgText(arg) : arg \in MixArgs} |->
        CHOOSE arg \in MixArgs : MixArgText(arg) = t]

\* splitTopLevel of the text inside color-mix( ): the parts between the
\* top-level commas.
MixCalls ==
    {<<first, MixArgText(a1), MixArgText(a2)>> :
        first \in {"in srgb", "in xyz"}, a1 \in MixArgs, a2 \in MixArgs}
        \cup {<<"in srgb", "white">>, <<"srgb", "white", "black">>}
RECURSIVE JoinParts(_)
JoinParts(parts) ==
    IF Len(parts) = 1 THEN parts[1] ELSE parts[1] \o ", " \o JoinParts(Tail(parts))
MixText(parts) == "color-mix(" \o JoinParts(parts) \o ")"
\* The color-mix() texts of the model, and the parts splitTopLevel makes of
\* one of them.
MixTexts == {MixText(parts) : parts \in MixCalls}
MixParts(text) == CHOOSE parts \in MixCalls : MixText(parts) = text

\* spaceMatch of parseColorMix, /^in\s+(\S+)$/
SpaceMatch(part) ==
    IF part = "in srgb" THEN Some("srgb")
    ELSE IF part = "in xyz" THEN Some("xyz")
    ELSE None

RECURSIVE parseColor(_)

parseColorMixArg(arg) ==
    LET pctMatch == ArgMatch[arg]
        color == parseColor(pctMatch.colorStr)
    IN  IF IsThrown(color) THEN color
        ELSE IF color = None THEN None
        ELSE Some([color |-> color[1], pct |-> pctMatch.pct])

\* The weights with an argument without percentage at 50 whatever the
\* percentage of the other argument.
MixWeights_alwaysHalf(pct1, pct2) ==
    IF pct1 = None /\ pct2 = None THEN [p1 |-> 50, p2 |-> 50]
    ELSE IF pct1 # None /\ pct2 # None THEN [p1 |-> pct1[1], p2 |-> pct2[1]]
    ELSE IF pct1 # None THEN [p1 |-> pct1[1], p2 |-> 50]
    ELSE [p1 |-> 50, p2 |-> pct2[1]]

\* p1 and p2 of parseColorMix from the percentages of the two arguments.
MixWeights(pct1, pct2) ==
    IF pct1 = None /\ pct2 = None THEN [p1 |-> 50, p2 |-> 50]
    ELSE IF pct1 # None /\ pct2 # None THEN [p1 |-> pct1[1], p2 |-> pct2[1]]
    ELSE IF pct1 # None THEN [p1 |-> pct1[1], p2 |-> 100 - pct1[1]]
    ELSE [p1 |-> 100 - pct2[1], p2 |-> pct2[1]]

\* The end of parseColorMix: null for a sum of at most 0, the mix in srgb,
\* null for another colour space (those of the model are srgb and one that
\* is not supported).  Math.round(c1.r * w1 + c2.r * w2) with w = p / sum.
MixIn(colorSpace, c1, c2, w) ==
    IF w.p1 + w.p2 <= 0 THEN None
    ELSE IF colorSpace = "srgb"
    THEN Some(Rgb(Round(c1.r * w.p1 + c2.r * w.p2, w.p1 + w.p2),
                  Round(c1.g * w.p1 + c2.g * w.p2, w.p1 + w.p2),
                  Round(c1.b * w.p1 + c2.b * w.p2, w.p1 + w.p2)))
    ELSE None

\* parseColorMix once its two arguments are parsed.
MixOf(colorSpace, arg1, arg2) ==
    IF IsThrown(arg1) THEN arg1
    ELSE IF IsThrown(arg2) THEN arg2
    ELSE IF arg1 = None \/ arg2 = None THEN None
    ELSE MixIn(colorSpace, arg1[1].color, arg2[1].color,
               MixWeights(arg1[1].pct, arg2[1].pct))

\* parseColorMix from the parts of splitTopLevel on.
MixFrom(parts) ==
    IF Len(parts) # 3 THEN None
    ELSE IF SpaceMatch(parts[1]) = None THEN None
    ELSE MixOf(SpaceMatch(parts[1])[1], parseColorMixArg(parts[2]),
               parseColorMixArg(parts[3]))

parseColorMix(value) == MixFrom(MixParts(value))

\* The colour texts of the model.  The functional syntaxes other than
\* rgb()/rgba() and color-mix() are not among them.
ColorTexts ==
    {"transparent", "var(--x)", "banana", ""}
        \cup InheritedKeys
        \cup DOMAIN NAMED_COLORS \cup DOMAIN HexChars \cup DOMAIN RgbMatch \cup MixTexts

parseColor(value) ==
    LET trimmed == value
    IN  IF trimmed = "transparent" THEN None
        ELSE IF trimmed \in DOMAIN NAMED_COLORS THEN parseHex(NAMED_COLORS[trimmed])
        ELSE IF trimmed \in InheritedKeys THEN HexOfNonString
        ELSE IF trimmed \in DOMAIN HexChars THEN parseHex(trimmed)      \* startsWith('#')
        ELSE IF trimmed \in DOMAIN RgbMatch THEN parseRgb(trimmed)      \* startsWith('rgb')
        ELSE IF trimmed \in MixTexts THEN parseColorMix(trimmed) \* startsWith('color-mix(')
        ELSE None

(***************************************************************************)
(* tailwind/tailwind-resolver.ts                                           *)
(***************************************************************************)
\* The entries of the default palette that the model uses.
defaultPalette ==
    [c \in {"white", "black"} |-> IF c = "white" THEN "#ffffff" ELSE "#000000"]

\* The members of SKIP_UTILITIES among the class names of the model.
SKIP_UTILITIES == {"text-lg", "text-center", "bg-cover"}

\* The class names of the model, and for each the match of ARBITRARY_RE
\* /^(text|bg)-\[(.+)\]$/ and of UTILITY_RE /^(text|bg)-(.+)$/: << >> when
\* it does not match, else the prefix and the second group.
ClassMatch ==
    [c \in {"card", "text-lg", "text-white", "bg-black", "bg-[#ff000080]",
            "text-[#767676]", "bg-brand", "brand-badge"} |->
        CASE c = "bg-[#ff000080]" ->
                [arbitrary |-> Some([prefix |-> "bg", raw |-> "#ff000080"]),
                 utility |-> Some([prefix |-> "bg", colorPart |-> "[#ff000080]"])]
          [] c = "text-[#767676]" ->
                [arbitrary |-> Some([prefix |-> "text", raw |-> "#767676"]),
                 utility |-> Some([prefix |-> "text", colorPart |-> "[#767676]"])]
          [] c = "text-lg" ->
                [arbitrary |-> None, utility |-> Some([prefix |-> "text", colorPart |-> "lg"])]
          [] c = "text-white" ->
                [arbitrary |-> None, utility |-> Some([prefix |-> "text", colorPart |-> "white"])]
          [] c = "bg-black" ->
                [arbitrary |-> None, utility |-> Some([prefix |-> "bg", colorPart |-> "black"])]
          [] c = "bg-brand" ->
                [arbitrary |-> None, utility |-> Some([prefix |-> "bg", colorPart |-> "brand"])]
          [] OTHER -> [arbitrary |-> None, utility |-> None]]

ClassNames == DOMAIN ClassMatch

\* No colour part of the model has the family-shade form of a palette family.
lookupPaletteColor(colorPart) ==
    IF colorPart \in DOMAIN defaultPalette THEN Some(defaultPalette[colorPart]) ELSE None

PropertyOfPrefix(prefix) == IF prefix = "text" THEN "color" ELSE "background-color"

resolveTailwindColor(className) ==
    IF className \in SKIP_UTILITIES THEN None
    ELSE LET arbMatch == ClassMatch[className].arbitrary
             utilMatch == ClassMatch[className].utility
         IN  IF arbMatch # None
             THEN Some([property |-> PropertyOfPrefix(arbMatch[1].prefix),
                        value |-> arbMatch[1].raw, className |-> className])
             ELSE IF utilMatch = None THEN None
             ELSE LET hex == lookupPaletteColor(utilMatch[1].colorPart)
                  IN  IF hex = None THEN None
                      ELSE Some([property |-> PropertyOfPrefix(utilMatch[1].prefix),
                                 value |-> hex[1], className |-> className])

\* The loop of resolveTailwindForeground/Background from class i on: the
\* last class that resolves to the property wins.
RECURSIVE resolveTailwind(_, _, _, _)
resolveTailwind(classes, property, i, result) ==
    IF i > Len(classes) THEN result
    ELSE LET resolved == resolveTailwindColor(classes[i])
         IN  IF resolved # None /\ resolved[1].property = property
             THEN resolveTailwind(classes, property, i + 1, resolved)
             ELSE resolveTailwind(classes, property, i + 1, result)

resolveTailwindForeground(classes) == resolveTailwind(classes, "color", 1, None)
resolveTailwindBackground(classes) == resolveTailwind(classes, "background-color", 1, None)

(***************************************************************************)
(* matcher/selector-matcher.ts: selectors                                  *)
(*                                                                         *)
(* An element is named by its index in elements; parentElement is an index *)
(* too, 0 for null.                                                        *)
(***************************************************************************)
\* The selectors of the model, and for each the segments and combinators the
\* tokenizing loop of parseSelector collects.
SelectorTokens ==
    [sel \in {"h2", "div", "body", "html", ":root", "*", ".card", "h2.card", "#title", "p",
              "h2:hover", "div h2", "div > h2", "body > h2", ".card h2", "p + h2",
              "body > div h2", "body div > h2", "div > div h2", "p + div > h2",
              "div > p + h2", "p ~ div h2", "p + body > div h2"} |->
        CASE sel = "div h2"    -> [segments |-> <<"div", "h2">>, combinators |-> <<" ">>]
          [] sel = "div > h2"  -> [segments |-> <<"div", "h2">>, combinators |-> <<">">>]
          [] sel = "body > h2" -> [segments |-> <<"body", "h2">>, combinators |-> <<">">>]
          [] sel = ".card h2"  -> [segments |-> <<".card", "h2">>, combinators |-> <<" ">>]
          [] sel = "p + h2"    -> [segments |-> <<"p", "h2">>, combinators |-> <<"+">>]
          [] sel = "body > div h2" ->
                [segments |-> <<"body", "div", "h2">>, combinators |-> <<">", " ">>]
          [] sel = "body div > h2" ->
                [segments |-> <<"body", "div", "h2">>, combinators |-> <<" ", ">">>]
          [] sel = "div > div h2" ->
                [segments |-> <<"div", "div", "h2">>, combinators |-> <<">", " ">>]
          [] sel = "p + div > h2" ->
                [segments |-> <<"p", "div", "h2">>, combinators |-> <<"+", ">">>]
          [] sel = "div > p + h2" ->
                [segments |-> <<"div", "p", "h2">>, combinators |-> <<">", "+">>]
          [] sel = "p ~ div h2" ->
                [segments |-> <<"p", "div", "h2">>, combinators |-> <<"~", " ">>]
          [] sel = "p + body > div h2" ->
                [segments |-> <<"p", "body", "div", "h2">>,
                 combinators |-> <<"+", ">", " ">>]
          [] OTHER -> [segments |-> <<sel>>, combinators |-> << >>]]

Selectors == DOMAIN SelectorTokens

\* The segments of the model, and for each what parseSelectorPart finds in
\* it once pseudo-classes and attribute selectors are stripped: whether
\* nothing is left, the tag name, the classes and the id.
SegmentMatch ==
    [seg \in {"h2", "div", "body", "html", "p", ":root", "*", ".card", "h2.card", "#title",
              "h2:hover"} |->
        CASE seg \in {"h2", "div", "body", "html", "p"} ->
                [empty |-> FALSE, tagName |-> Some(seg), classes |-> << >>, id |-> None]
          [] seg = "h2:hover" ->
                [empty |-> FALSE, tagName |-> Some("h2"), classes |-> << >>, id |-> None]
          [] seg = ".card" ->
                [empty |-> FALSE, tagName |-> None, classes |-> <<"card">>, id |-> None]
          [] seg = "h2.card" ->
                [empty |-> FALSE, tagName |-> Some("h2"), classes |-> <<"card">>, id |-> None]
          [] seg = "#title" ->
                [empty |-> FALSE, tagName |-> None, classes |-> << >>, id |-> Some("title")]
          [] seg = ":root" ->
                [empty |-> TRUE, tagName |-> None, classes |-> << >>, id |-> None]
          [] seg = "*" ->
                [empty |-> FALSE, tagName |-> None, classes |-> << >>, id |-> None]]

parseSelectorPart(seg) ==
    LET m == SegmentMatch[seg]
    IN  IF seg = "*"
        THEN Some([tagName |-> None, classes |-> << >>, id |-> None, isUniversal |-> TRUE])
        ELSE IF m.empty THEN None
        ELSE IF m.tagName = None /\ m.classes = << >> /\ m.id = None THEN None
        ELSE Some([tagName |-> m.tagName, classes |-> m.classes, id |-> m.id,
                   isUniversal |-> FALSE])

\* ancestors lists the parts left of the target from right to left, each
\* with the combinator that follows it in the selector.
parseSelector(selector) ==
    LET segments == SelectorTokens[selector].segments
        combinators == SelectorTokens[selector].combinators
        n == Len(segments)
    IN  IF n = 0 THEN None
        ELSE IF \E i \in 1..n : parseSelectorPart(segments[i]) = None THEN None
        ELSE Some([target |-> parseSelectorPart(segments[n])[1],
                   ancestors |-> [k \in 1..(n - 1) |->
                       [combinator |-> combinators[n - k],
                        part |-> parseSelectorPart(segments[n - k])[1]]]])

InSeq(x, seq) == \E i \in 1..Len(seq) : seq[i] = x

matchesPart(element, part) ==
    IF part.isUniversal THEN TRUE
    ELSE IF part.tagName # None /\ elements[element].tagName # part.tagName[1] THEN FALSE
    ELSE IF part.id # None /\ elements[element].id # part.id THEN FALSE
    ELSE IF \E i \in 1..Len(part.classes) : ~InSeq(part.classes[i], elements[element].classes)
         THEN FALSE
    ELSE IF part.tagName = None /\ part.classes = << >> /\ part.id = None THEN FALSE
    ELSE TRUE

\* The nearest of element e and its ancestors that matches part, 0 if none.
RECURSIVE FirstMatchingFrom(_, _)
FirstMatchingFrom(e, part) ==
    IF e = 0 THEN 0
    ELSE IF matchesPart(e, part) THEN e
    ELSE FirstMatchingFrom(elements[e].parentElement, part)

\* The loop with a sibling combinator anywhere in the selector ending it
\* before its first entry.
RECURSIVE MatchesAncestors_siblingAnywhere(_, _, _)
MatchesAncestors_siblingAnywhere(current, ancestors, k) ==
    IF k > Len(ancestors) THEN TRUE
    ELSE IF \E j \in 1..Len(ancestors) : ancestors[j].combinator \notin {">", " "} THEN TRUE
    ELSE LET part == ancestors[k].part
             parent == elements[current].parentElement
         IN  IF ancestors[k].combinator = ">"
             THEN IF parent = 0 \/ ~matchesPart(parent, part) THEN FALSE
                  ELSE MatchesAncestors_siblingAnywhere(parent, ancestors, k + 1)
             ELSE LET found == FirstMatchingFrom(parent, part)
                  IN  IF found = 0 THEN FALSE
                      ELSE MatchesAncestors_siblingAnywhere(found, ancestors, k + 1)

\* The loop of matchesSelector over selector.ancestors from entry k on,
\* current being the element matched last.
RECURSIVE MatchesAncestors(_, _, _)
MatchesAncestors(current, ancestors, k) ==
    IF k > Len(ancestors) THEN TRUE
    ELSE LET combinator == ancestors[k].combinator
             part == ancestors[k].part
             parent == elements[current].parentElement
         IN  IF combinator = ">"
             THEN IF parent = 0 \/ ~matchesPart(parent, part) THEN FALSE
                  ELSE MatchesAncestors(parent, ancestors, k + 1)
             ELSE IF combinator = " "
             THEN LET found == FirstMatchingFrom(parent, part)
                  IN  IF found = 0 THEN FALSE
                      ELSE MatchesAncestors(found, ancestors, k + 1)
             ELSE TRUE      \* sibling combinators: break

matchesSelector(element, selector) ==
    IF ~matchesPart(element, selector.target) THEN FALSE
    ELSE MatchesAncestors(element, selector.ancestors, 1)

partSpecificity(part) ==
    IF part.isUniversal THEN 0
    ELSE (IF part.id # None THEN 100 ELSE 0)
         + Len(part.classes) * 10
         + (IF part.tagName # None THEN 1 ELSE 0)

RECURSIVE SumSpecificity(_, _)
SumSpecificity(ancestors, k) ==
    IF k > Len(ancestors) THEN 0
    ELSE partSpecificity(ancestors[k].part) + SumSpecificity(ancestors, k + 1)

selectorSpecificity(selector) ==
    partSpecificity(selector.target) + SumSpecificity(selector.ancestors, 1)

\* decl.property !== property && !(property === 'background-color' && decl.property === 'background')
DeclarationIsFor(decl, property) ==
    decl.property = property \/ (property = "background-color" /\ decl.property = "background")

\* The loops of findBestDeclaration keeping the first of the matches of equal
\* specificity (> for >=).
RECURSIVE BestFrom_firstWins(_, _, _, _, _, _)
BestFrom_firstWins(element, ruleList, property, r, d, best) ==
    IF r > Len(ruleList) THEN best
    ELSE LET rule == ruleList[r]
             parsed == parseSelector(rule.selector)
         IN  IF rule.ignored \/ parsed = None \/ d > Len(rule.declarations)
             THEN BestFrom_firstWins(element, ruleList, property, r + 1, 1, best)
             ELSE IF ~matchesSelector(element, parsed[1])
             THEN BestFrom_firstWins(element, ruleList, property, r + 1, 1, best)
             ELSE LET spec == selectorSpecificity(parsed[1])
                      decl == rule.declarations[d]
                  IN  IF DeclarationIsFor(decl, property)
                         /\ (best = None \/ spec > best[1].specificity)
                      THEN BestFrom_firstWins(element, ruleList, property, r, d + 1,
                                    Some([declaration |-> decl, specificity |-> spec,
                                          selector |-> rule.selector, ref |-> <<r, d>>]))
                      ELSE BestFrom_firstWins(element, ruleList, property, r, d + 1, best)

\* The loops of findBestDeclaration from declaration d of rule r on, best
\* being the match kept so far.  A match refers to its declaration: ref is
\* the place <<rule, declaration>> of that declaration in ruleList.
RECURSIVE BestFrom(_, _, _, _, _, _)
BestFrom(element, ruleList, property, r, d, best) ==
    IF r > Len(ruleList) THEN best
    ELSE LET rule == ruleList[r]
             parsed == parseSelector(rule.selector)
         IN  IF rule.ignored \/ parsed = None \/ d > Len(rule.declarations)
             THEN BestFrom(element, ruleList, property, r + 1, 1, best)
             ELSE IF ~matchesSelector(element, parsed[1])
             THEN BestFrom(element, ruleList, property, r + 1, 1, best)
             ELSE LET spec == selectorSpecificity(parsed[1])
                      decl == rule.declarations[d]
                  IN  IF DeclarationIsFor(decl, property)
                         /\ (best = None \/ spec >= best[1].specificity)
                      THEN BestFrom(element, ruleList, property, r, d + 1,
                                    Some([declaration |-> decl, specificity |-> spec,
                                          selector |-> rule.selector, ref |-> <<r, d>>]))
                      ELSE BestFrom(element, ruleList, property, r, d + 1, best)

findBestDeclaration(element, ruleList, property) ==
    BestFrom(element, ruleList, property, 1, 1, None)

(***************************************************************************)
(* matcher/selector-matcher.ts: pair assembly                              *)
(***************************************************************************)
ROOT_SELECTORS == {"body", "html", ":root"}

\* The entries of the class tables and of the heading defaults that the
\* model uses.
TAILWIND_FONT_SIZES == [c \in {"text-lg"} |-> "18px"]
TAILWIND_FONT_WEIGHTS == [c \in {"font-bold"} |-> "700"]
HEADING_DEFAULTS == [t \in {"h2"} |-> [fontSize |-> "24px", fontWeight |-> "700"]]

ColorInfo(original, rgb, source, selector) ==
    [original |-> original, rgb |-> rgb, source |-> source, selector |-> selector]

\* A nullable string that is neither null nor empty.
Truthy(text) == text # None /\ text # Some("")

\* element.inlineStyles?.color and the like
InlineStyle(element, field) ==
    IF elements[element].inlineStyles = None THEN None
    ELSE elements[element].inlineStyles[1][field]

\* decl.resolvedValue ?? decl.value
ResolvedOrValue(decl) ==
    IF decl.resolvedValue # None THEN decl.resolvedValue[1] ELSE decl.value

\* The loops of findRootBackground from declaration d of rule r on.
RECURSIVE RootBackgroundFrom(_, _, _)
RootBackgroundFrom(ruleList, r, d) ==
    IF r > Len(ruleList) THEN None
    ELSE LET rule == ruleList[r]
         IN  IF rule.ignored \/ rule.selector \notin ROOT_SELECTORS
                \/ d > Len(rule.declarations)
             THEN RootBackgroundFrom(ruleList, r + 1, 1)
             ELSE LET decl == rule.declarations[d]
                  IN  IF decl.property # "background-color" /\ decl.property # "background"
                      THEN RootBackgroundFrom(ruleList, r, d + 1)
                      ELSE Some(ColorInfo(decl.value, parseColor(ResolvedOrValue(decl)),
                                          "stylesheet", "inherited:" \o rule.selector))

findRootBackground(ruleList) == RootBackgroundFrom(ruleList, 1, 1)

\* The loop of findAncestorBackground going on to the farthest ancestor that
\* has a background instead of stopping at the nearest.
RECURSIVE AncestorBackgroundFrom_farthest(_, _)
AncestorBackgroundFrom_farthest(ancestor, ruleList) ==
    IF ancestor = 0 THEN None
    ELSE LET inlineBg == InlineStyle(ancestor, "backgroundColor")
             twBg == resolveTailwindBackground(elements[ancestor].classes)
             match == findBestDeclaration(ancestor, ruleList, "background-color")
             above == AncestorBackgroundFrom_farthest(elements[ancestor].parentElement, ruleList)
         IN  IF above # None THEN above
             ELSE IF Truthy(inlineBg)
             THEN Some(ColorInfo(inlineBg[1], parseColor(inlineBg[1]), "inline",
                                 "inherited:" \o elements[ancestor].tagName))
             ELSE IF twBg # None
             THEN Some(ColorInfo(twBg[1].className, parseColor(twBg[1].value), "stylesheet",
                                 "inherited:" \o twBg[1].className))
             ELSE IF match # None
             THEN Some(ColorInfo(match[1].declaration.value,
                                 parseColor(ResolvedOrValue(match[1].declaration)),
                                 "stylesheet", "inherited:" \o match[1].selector))
             ELSE None

\* The loop of findAncestorBackground, ancestor being the element looked at.
RECURSIVE AncestorBackgroundFrom(_, _)
AncestorBackgroundFrom(ancestor, ruleList) ==
    IF ancestor = 0 THEN None
    ELSE LET inlineBg == InlineStyle(ancestor, "backgroundColor")
             twBg == resolveTailwindBackground(elements[ancestor].classes)
             match == findBestDeclaration(ancestor, ruleList, "background-color")
         IN  IF Truthy(inlineBg)
             THEN Some(ColorInfo(inlineBg[1], parseColor(inlineBg[1]), "inline",
                                 "inherited:" \o elements[ancestor].tagName))
             ELSE IF twBg # None
             THEN Some(ColorInfo(twBg[1].className, parseColor(twBg[1].value), "stylesheet",
                                 "inherited:" \o twBg[1].className))
             ELSE IF match # None
             THEN Some(ColorInfo(match[1].declaration.value,
                                 parseColor(ResolvedOrValue(match[1].declaration)),
                                 "stylesheet", "inherited:" \o match[1].selector))
             ELSE AncestorBackgroundFrom(elements[ancestor].parentElement, ruleList)

findAncestorBackground(element, ruleList) ==
    AncestorBackgroundFrom(elements[element].parentElement, ruleList)

\* a ?? b for nullable values
OrElse(a, b) == IF a # None THEN a ELSE b

\* The loop without its check of the ignored flag.
Eligible_textOnly(element) == elements[element].hasTextContent

\* buildColorPairs, lines 278-279: the elements the loop does not skip.
Eligible(element) == elements[element].hasTextContent /\ ~elements[element].ignored

\* OwnColor with the utility class looked up before the inline style.
OwnColor_utilityFirst(element, ruleList, property, field) ==
    LET inline == InlineStyle(element, field)
        tw == IF property = "color"
              THEN resolveTailwindForeground(elements[element].classes)
              ELSE resolveTailwindBackground(elements[element].classes)
        match == findBestDeclaration(element, ruleList, property)
    IN  IF tw # None
        THEN Some(ColorInfo(tw[1].className, parseColor(tw[1].value), "stylesheet",
                            tw[1].className))
        ELSE IF Truthy(inline)
        THEN Some(ColorInfo(inline[1], parseColor(inline[1]), "inline", "inline"))
        ELSE IF match # None
        THEN Some(ColorInfo(match[1].declaration.value,
                            parseColor(ResolvedOrValue(match[1].declaration)),
                            "stylesheet", match[1].selector))
        ELSE None

\* buildColorPairs, lines 281-351, for the colour of property ('color' or
\* 'background-color') whose inline field is field: the inline style, else
\* the utility class, else the best stylesheet declaration, else null.
OwnColor(element, ruleList, property, field) ==
    LET inline == InlineStyle(element, field)
        tw == IF property = "color"
              THEN resolveTailwindForeground(elements[element].classes)
              ELSE resolveTailwindBackground(elements[element].classes)
        match == findBestDeclaration(element, ruleList, property)
    IN  IF Truthy(inline)
        THEN Some(ColorInfo(inline[1], parseColor(inline[1]), "inline", "inline"))
        ELSE IF tw # None
        THEN Some(ColorInfo(tw[1].className, parseColor(tw[1].value), "stylesheet",
                            tw[1].className))
        ELSE IF match # None
        THEN Some(ColorInfo(match[1].declaration.value,
                            parseColor(ResolvedOrValue(match[1].declaration)),
                            "stylesheet", match[1].selector))
        ELSE None

\* A pair for every element, with both sides defaulted if need be.
HasExplicitColor_always(fgColor, bgColor) == TRUE

\* buildColorPairs, line 354: a pair is made if a side has an explicit colour.
HasExplicitColor(fgColor, bgColor) == ~(fgColor = None /\ bgColor = None)

DefaultForeground == ColorInfo("#000000 (assumed)", Some(Rgb(0, 0, 0)), "stylesheet", "(default)")
DefaultBackground ==
    ColorInfo("#ffffff (assumed)", Some(Rgb(255, 255, 255)), "stylesheet", "(default)")

\* buildColorPairs, lines 366-373 and 378-380: the surface behind the element.
SurfaceBehind(element, ruleList) ==
    OrElse(findAncestorBackground(element, ruleList),
           OrElse(findRootBackground(ruleList), Some(DefaultBackground)))[1]

\* buildColorPairs, lines 376-392: a background with alpha below 1 is
\* composited onto the surface behind the element if that surface has a colour.
CompositeOnto(bgColor, behind) ==
    IF behind.rgb # None
    THEN [bgColor EXCEPT !.rgb =
             Some(Rgb(Round(bgColor.rgb[1].r * bgColor.rgb[1].a
                                + behind.rgb[1].r * (AlphaDen - bgColor.rgb[1].a), AlphaDen),
                      Round(bgColor.rgb[1].g * bgColor.rgb[1].a
                                + behind.rgb[1].g * (AlphaDen - bgColor.rgb[1].a), AlphaDen),
                      Round(bgColor.rgb[1].b * bgColor.rgb[1].a
                                + behind.rgb[1].b * (AlphaDen - bgColor.rgb[1].a), AlphaDen)))]
    ELSE bgColor

CompositeBackground(element, ruleList, bgColor) ==
    IF bgColor.rgb # None /\ bgColor.rgb[1].a # NoAlpha /\ bgColor.rgb[1].a < AlphaDen
    THEN CompositeOnto(bgColor, SurfaceBehind(element, ruleList))
    ELSE bgColor

\* The first class of the element that is in table, as a nullable text.
RECURSIVE FirstInTable(_, _, _)
FirstInTable(classes, table, i) ==
    IF i > Len(classes) THEN None
    ELSE IF classes[i] \in DOMAIN table THEN Some(table[classes[i]])
    ELSE FirstInTable(classes, table, i + 1)

\* buildColorPairs, lines 394-422, for font-size and font-weight: inline,
\* else utility class, else stylesheet, else heading default.
FontValue(element, ruleList, property, field, table) ==
    LET inline == InlineStyle(element, field)
        tw == FirstInTable(elements[element].classes, table, 1)
        match == findBestDeclaration(element, ruleList, property)
        tag == elements[element].tagName
        fromClass == IF ~Truthy(inline) /\ tw # None THEN tw ELSE inline
        fromRule == IF ~Truthy(fromClass) /\ match # None
                    THEN Some(ResolvedOrValue(match[1].declaration))
                    ELSE fromClass
    IN  IF ~Truthy(fromRule) /\ tag \in DOMAIN HEADING_DEFAULTS
        THEN Some(HEADING_DEFAULTS[tag][field])
        ELSE fromRule

\* buildColorPairs, lines 354-430: the pair of an element with the colours
\* fgColor and bgColor of its own, << >> if it has neither.
PairWith(element, ruleList, fgColor, bgColor) ==
    IF ~HasExplicitColor(fgColor, bgColor) THEN None
    ELSE Some([element |-> element,
               foreground |-> OrElse(fgColor, Some(DefaultForeground))[1],
               background |->
                   CompositeBackground(
                       element, ruleList,
                       OrElse(bgColor, Some(SurfaceBehind(element, ruleList)))[1]),
               fontSize |-> FontValue(element, ruleList, "font-size",
                                      "fontSize", TAILWIND_FONT_SIZES),
               fontWeight |-> FontValue(element, ruleList, "font-weight",
                                        "fontWeight", TAILWIND_FONT_WEIGHTS)])

\* One iteration of the loop of buildColorPairs: << >> when the element is
\* skipped, else the pair that is pushed.
PairOf(element, ruleList) ==
    IF ~Eligible(element) THEN None
    ELSE PairWith(element, ruleList,
                  OwnColor(element, ruleList, "color", "color"),
                  OwnColor(element, ruleList, "background-color", "backgroundColor"))

(***************************************************************************)
(* contrast/wcag.ts (the second half of parser/css-parser.ts)              *)
(***************************************************************************)
\* WCAG 2.1 thresholds, in tenths.
AA_NORMAL == 45
AAA_NORMAL == 70
AA_LARGE == 30
AAA_LARGE == 45

\* The font sizes of the model, and for each the match of
\* /^(\d+(?:\.\d+)?)\s*(px|pt|rem|em|%)?$/ against the trimmed, lower-cased
\* text: << >> when it does not match, else the number (parseFloat of group
\* 1, in thousandths) and the unit (group 2, "" when absent).
FontSizeMatch ==
    [s \in {"24px", "18px", " 18PX ", "17.99px", "16", "14px", "13.99px", "13.5pt",
            "10.5pt", "1.125rem", "0.875em", "112.5%", "100%",
            "calc(1rem + 2px)", "clamp(1rem, 2vw, 2rem)", "2vw", ""} |->
        CASE s = "24px"     -> Some([value |-> 24000, unit |-> "px"])
          [] s = "18px"     -> Some([value |-> 18000, unit |-> "px"])
          [] s = " 18PX "   -> Some([value |-> 18000, unit |-> "px"])
          [] s = "17.99px"  -> Some([value |-> 17990, unit |-> "px"])
          [] s = "16"       -> Some([value |-> 16000, unit |-> ""])
          [] s = "14px"     -> Some([value |-> 14000, unit |-> "px"])
          [] s = "13.99px"  -> Some([value |-> 13990, unit |-> "px"])
          [] s = "13.5pt"   -> Some([value |-> 13500, unit |-> "pt"])
          [] s = "10.5pt"   -> Some([value |-> 10500, unit |-> "pt"])
          [] s = "1.125rem" -> Some([value |-> 1125, unit |-> "rem"])
          [] s = "0.875em"  -> Some([value |-> 875, unit |-> "em"])
          [] s = "112.5%"   -> Some([value |-> 112500, unit |-> "%"])
          [] s = "100%"     -> Some([value |-> 100000, unit |-> "%"])
          [] OTHER          -> None]

FontSizes == DOMAIN FontSizeMatch

\* Pixel sizes are in units of 1/PxScale px (value is in thousandths).
PxScale == 75 * 1000

parseFontSizePx(fontSize) ==
    LET m == FontSizeMatch[fontSize]
    IN  IF m = None THEN None
        ELSE LET value == m[1].value
                 unit == IF m[1].unit = "" THEN "px" ELSE m[1].unit
             IN  CASE unit = "px" -> Some(value * 75)
                   [] unit = "pt" -> Some(value * 100)              \* value * (4 / 3)
                   [] unit \in {"rem", "em"} -> Some(value * 1200)  \* value * 16
                   [] unit = "%" -> Some(value * 12)                \* value * 0.16
                   [] OTHER -> None

\* The font weights of the model, and for each parseInt(trimmed, 10):
\* << >> for NaN.
FontWeightInt ==
    [s \in {"900", "700", "600", "400", "bold", "bolder", "normal", "lighter", "semibold"} |->
        CASE s = "900" -> Some(900)
          [] s = "700" -> Some(700)
          [] s = "600" -> Some(600)
          [] s = "400" -> Some(400)
          [] OTHER     -> None]

FontWeights == DOMAIN FontWeightInt

parseFontWeightNumeric(fontWeight) ==
    LET num == FontWeightInt[fontWeight]
    IN  IF num # None THEN num[1]
        ELSE CASE fontWeight \in {"bold", "bolder"} -> 700
               [] fontWeight \in {"normal", "lighter"} -> 400
               [] OTHER -> 400

\* isLargeText with a strict comparison against 18px.
isLargeText_strict(fontSize, fontWeight) ==
    IF fontSize = None \/ fontSize = Some("") THEN FALSE
    ELSE LET px == parseFontSizePx(fontSize[1])
         IN  IF px = None THEN FALSE
             ELSE IF px[1] > 18 * PxScale THEN TRUE
             ELSE IF px[1] >= 14 * PxScale
                  THEN LET weight == IF fontWeight = None \/ fontWeight = Some("")
                                     THEN 400
                                     ELSE parseFontWeightNumeric(fontWeight[1])
                       IN  weight >= 700
             ELSE FALSE

\* fontSize and fontWeight are nullable strings.
isLargeText(fontSize, fontWeight) ==
    IF fontSize = None \/ fontSize = Some("") THEN FALSE
    ELSE LET px == parseFontSizePx(fontSize[1])
         IN  IF px = None THEN FALSE
             ELSE IF px[1] >= 18 * PxScale THEN TRUE
             ELSE IF px[1] >= 14 * PxScale
                  THEN LET weight == IF fontWeight = None \/ fontWeight = Some("")
                                     THEN 400
                                     ELSE parseFontWeightNumeric(fontWeight[1])
                       IN  weight >= 700
             ELSE FALSE

\* ratio >= threshold, the threshold in tenths
RatioAtLeast(ratio, threshold10) == ratio.num * 10 >= threshold10 * ratio.den

\* evaluateContrast with the AAA threshold of normal text for every text class.
evaluateContrast_oneAAA(foreground, background, fontSize, fontWeight) ==
    LET ratio == contrastRatio(foreground, background)
        largeText == isLargeText(fontSize, fontWeight)
        aaThreshold == IF largeText THEN AA_LARGE ELSE AA_NORMAL
        aaaThreshold == AAA_NORMAL
        meetsAA == RatioAtLeast(ratio, aaThreshold)
        meetsAAA == RatioAtLeast(ratio, aaaThreshold)
        level == IF meetsAAA THEN "pass" ELSE IF meetsAA THEN "aaa-only" ELSE "aa-fail"
    IN  [ratio |-> ratio, meetsAA |-> meetsAA, meetsAAA |-> meetsAAA,
         level |-> level, isLargeText |-> largeText]

evaluateContrast(foreground, background, fontSize, fontWeight) ==
    LET ratio == contrastRatio(foreground, background)
        largeText == isLargeText(fontSize, fontWeight)
        aaThreshold == IF largeText THEN AA_LARGE ELSE AA_NORMAL
        aaaThreshold == IF largeText THEN AAA_LARGE ELSE AAA_NORMAL
        meetsAA == RatioAtLeast(ratio, aaThreshold)
        meetsAAA == RatioAtLeast(ratio, aaaThreshold)
        level == IF meetsAAA THEN "pass" ELSE IF meetsAA THEN "aaa-only" ELSE "aa-fail"
    IN  [ratio |-> ratio, meetsAA |-> meetsAA, meetsAAA |-> meetsAAA,
         level |-> level, isLargeText |-> largeText]

(***************************************************************************)
(* The evaluator: one call of evaluateContrast(foreground, background,     *)
(* {fontSize, fontWeight}) on arguments drawn from InputColors, FontSizes  *)
(* and FontWeights.                                                        *)
(***************************************************************************)
InputColors ==
    {Rgb(0, 0, 0), Rgb(255, 255, 255), Rgb(118, 118, 118), Rgb(148, 148, 148),
     Rgba(0, 0, 0, AlphaDen \div 2), Rgba(255, 255, 255, AlphaDen \div 2),
     Rgba(0, 0, 0, 0), Rgba(0, 0, 0, AlphaDen), Rgba(255, 0, 0, 128 * 4)}

NoEvaluation ==
    [ratio |-> [num |-> 0, den |-> 1], meetsAA |-> FALSE, meetsAAA |-> FALSE,
     level |-> "", isLargeText |-> FALSE]

\* The variables of the other runs wherever they play no part.
NoLookup == [element |-> 0, property |-> "", result |-> None]
PairIdle ==
    elements = << >> /\ rules = << >> /\ pairs = << >> /\ lookup = NoLookup
WcagIdle ==
    /\ fgIn = Rgb(0, 0, 0) /\ bgIn = Rgb(0, 0, 0) /\ sizeIn = None /\ weightIn = None
    /\ evalOut = NoEvaluation /\ lumOut = None
VarIdle == props = << >> /\ callValue = << >> /\ stack = << >> /\ ret = None
ColorIdle == colorIn = "" /\ colorOut = None
FileIdle ==
    /\ options = << >> /\ externalCssRules = << >> /\ filePaths = << >>
    /\ fileResults = << >> /\ filesOut = None /\ call = << >> /\ runs = << >>
CssIdle ==
    /\ cssDisk = << >> /\ hrefsIn = << >> /\ cssStack = << >> /\ seen = {}
    /\ reads = << >> /\ cssOut = None
CliIdle == cli = << >> /\ exitCode = None
WatchIdle ==
    /\ mode = "" /\ timer = None /\ analysing = << >> /\ latestResults = << >>
    /\ watchLog = << >>
HostIdle == CliIdle /\ WatchIdle
RestIdle == ColorIdle /\ FileIdle /\ CssIdle /\ HostIdle

InitWcag ==
    /\ pc = "wcag-input"
    /\ fgIn \in InputColors
    /\ bgIn \in InputColors
    /\ sizeIn \in {None} \cup {Some(s) : s \in FontSizes}
    /\ weightIn \in {None} \cup {Some(w) : w \in FontWeights}
    /\ evalOut = NoEvaluation
    /\ lumOut = None
    /\ PairIdle
    /\ VarIdle
    /\ RestIdle

EvaluateContrast ==
    /\ pc = "wcag-input"
    /\ evalOut' = evaluateContrast(fgIn, bgIn, sizeIn, weightIn)
    /\ pc' = "wcag-done"
    /\ UNCHANGED <<fgIn, bgIn, sizeIn, weightIn, lumOut, pairVars, varVars, restVars>>

NextWcag == EvaluateContrast

SpecWcag == InitWcag /\ [][NextWcag]_vars

(***************************************************************************)
(* The document that buildColorPairs receives.  The element tree is a      *)
(* chain body > div > ... > h2 of NElems elements; what the parsers put on *)
(* it (inline styles, classes, the text and ignore flags) and into the     *)
(* rule list is added one attribute at a time, at most MaxAttrs in all, so *)
(* that every document with that many attributes and rules is an input.    *)
(***************************************************************************)
NElems == 3
MaxAttrs == 3

TagOf(i) == IF i = 1 THEN "body" ELSE IF i = NElems THEN "h2" ELSE "div"

NoInlineStyles ==
    [color |-> None, backgroundColor |-> None, fontSize |-> None, fontWeight |-> None]

\* HtmlElementInfo (the position plays no part and is left out).
Element(i, classes, id) ==
    [tagName |-> TagOf(i), classes |-> classes, id |-> id, inlineStyles |-> None,
     hasTextContent |-> TRUE, ignored |-> FALSE, parentElement |-> i - 1]

BareTree == [i \in 1..NElems |-> Element(i, << >>, None)]

Decl(property, value) == [property |-> property, value |-> value, resolvedValue |-> Some(value)]
\* A declaration whose var() reference the resolver could not resolve.
UnresolvedDecl(property, value) ==
    [property |-> property, value |-> value, resolvedValue |-> None]
Rule(selector, declarations, ignored) ==
    [selector |-> selector, declarations |-> declarations, ignored |-> ignored]

\* What the document parser may put on an element.
InlineChoices ==
    {<<"color", "#767676">>, <<"backgroundColor", "#ff000080">>,
     <<"backgroundColor", "transparent">>}
ClassChoices == {"text-white", "bg-black"}

\* What the style parser and the resolver may put into the rule list.
PairRules ==
    {Rule("h2", <<Decl("color", "#767676")>>, FALSE),
     Rule("h2", <<Decl("color", "#767676")>>, TRUE),
     Rule("div", <<Decl("background", "#ff000080")>>, FALSE),
     Rule("div", <<UnresolvedDecl("background-color", "var(--x)")>>, FALSE),
     Rule("body", <<Decl("background-color", "#000000")>>, FALSE),
     Rule(":root", <<Decl("font-size", "100%"), Decl("background", "red")>>, FALSE)}

\* The number of attributes and rules of the document.
InlineCount(e) ==
    IF elements[e].inlineStyles = None THEN 0
    ELSE Cardinality({f \in DOMAIN NoInlineStyles : elements[e].inlineStyles[1][f] # None})
RECURSIVE AttrCountFrom(_)
AttrCountFrom(e) ==
    IF e > Len(elements) THEN 0
    ELSE InlineCount(e) + Len(elements[e].classes)
         + (IF elements[e].hasTextContent THEN 0 ELSE 1)
         + (IF elements[e].ignored THEN 1 ELSE 0)
         + AttrCountFrom(e + 1)
AttrCount == AttrCountFrom(1) + Len(rules)

\* extractInlineStyles: a style attribute with one more declaration.
SetInlineStyle(e, field, value) ==
    /\ pc = "pairs-input"
    /\ AttrCount < MaxAttrs
    /\ InlineStyle(e, field) = None
    /\ elements' = [elements EXCEPT ![e].inlineStyles =
                       Some([OrElse(@, Some(NoInlineStyles))[1] EXCEPT ![field] = Some(value)])]
    /\ UNCHANGED <<pc, rules, pairs, lookup, wcagVars, varVars, restVars>>

\* extractClasses: a class attribute with one more class.
AddClass(e, class) ==
    /\ pc = "pairs-input"
    /\ AttrCount < MaxAttrs
    /\ ~InSeq(class, elements[e].classes)
    /\ elements' = [elements EXCEPT ![e].classes = Append(@, class)]
    /\ UNCHANGED <<pc, rules, pairs, lookup, wcagVars, varVars, restVars>>

\* hasTextContent: an element without text of its own.
SetNoText(e) ==
    /\ pc = "pairs-input"
    /\ AttrCount < MaxAttrs
    /\ elements[e].hasTextContent
    /\ elements' = [elements EXCEPT ![e].hasTextContent = FALSE]
    /\ UNCHANGED <<pc, rules, pairs, lookup, wcagVars, varVars, restVars>>

\* isIgnoreComment / hasIgnoreAttribute: an element flagged ignored.
SetIgnored(e) ==
    /\ pc = "pairs-input"
    /\ AttrCount < MaxAttrs
    /\ ~elements[e].ignored
    /\ elements' = [elements EXCEPT ![e].ignored = TRUE]
    /\ UNCHANGED <<pc, rules, pairs, lookup, wcagVars, varVars, restVars>>

\* parseCssBlock: one more rule at the end of the rule list.
AddRule(rule) ==
    /\ pc = "pairs-input"
    /\ AttrCount < MaxAttrs
    /\ rules' = Append(rules, rule)
    /\ UNCHANGED <<pc, elements, pairs, lookup, wcagVars, varVars, restVars>>

\* The loop of buildColorPairs from element i on: the pairs it pushes.
RECURSIVE PairsFrom(_, _)
PairsFrom(i, ruleList) ==
    IF i > Len(elements) THEN << >>
    ELSE PairOf(i, ruleList) \o PairsFrom(i + 1, ruleList)

\* The call buildColorPairs(elements, rules) and its return.
BuildColorPairs ==
    /\ pc = "pairs-input"
    /\ pairs' = PairsFrom(1, rules)
    /\ pc' = "pairs-done"
    /\ UNCHANGED <<elements, rules, lookup, wcagVars, varVars, restVars>>

InitPairs ==
    /\ pc = "pairs-input"
    /\ elements = BareTree
    /\ rules = << >>
    /\ pairs = << >>
    /\ lookup = NoLookup
    /\ WcagIdle
    /\ VarIdle
    /\ RestIdle

NextPairs ==
    \/ \E e \in 1..NElems : \E c \in InlineChoices : SetInlineStyle(e, c[1], c[2])
    \/ \E e \in 1..NElems : \E c \in ClassChoices : AddClass(e, c)
    \/ \E e \in 1..NElems : SetNoText(e)
    \/ \E e \in 1..NElems : SetIgnored(e)
    \/ \E rule \in PairRules : AddRule(rule)
    \/ BuildColorPairs

SpecPairs == InitPairs /\ [][NextPairs]_vars

(***************************************************************************)
(* The cascade: a rule list is parsed from the style blocks, then          *)
(* findBestDeclaration is called for an element and a property.            *)
(***************************************************************************)
MaxRules == 2

\* <body><div class="card"><h2 id="title" class="card">..</h2></div></body>
CascadeTree ==
    <<[tagName |-> "body", classes |-> << >>, id |-> None, inlineStyles |-> None,
       hasTextContent |-> TRUE, ignored |-> FALSE, parentElement |-> 0],
      [tagName |-> "div", classes |-> <<"card">>, id |-> None, inlineStyles |-> None,
       hasTextContent |-> TRUE, ignored |-> FALSE, parentElement |-> 1],
      [tagName |-> "h2", classes |-> <<"card">>, id |-> Some("title"), inlineStyles |-> None,
       hasTextContent |-> TRUE, ignored |-> FALSE, parentElement |-> 2]>>

CascadeSelectors ==
    {"*", "h2", ".card", "h2.card", "#title", "div h2", ".card h2", "body > h2", ":root"}
CascadeDeclarations ==
    {<<Decl("color", "red")>>,
     <<Decl("color", "#767676"), Decl("color", "white")>>,
     <<Decl("background", "black"), Decl("font-size", "100%")>>}
CascadeRules ==
    {Rule(sel, decls, FALSE) : sel \in CascadeSelectors, decls \in CascadeDeclarations}
        \cup {Rule("#title", <<Decl("color", "black")>>, TRUE)}
CascadeProperties == {"color", "background-color"}

\* parseCssBlock: one more rule at the end of the rule list.
AddCascadeRule(rule) ==
    /\ pc = "cascade-input"
    /\ Len(rules) < MaxRules
    /\ rules' = Append(rules, rule)
    /\ UNCHANGED <<pc, elements, pairs, lookup, wcagVars, varVars, restVars>>

\* The call findBestDeclaration(element, rules, property).
FindBestDeclaration(element, property) ==
    /\ pc = "cascade-input"
    /\ lookup' = [element |-> element, property |-> property,
                  result |-> findBestDeclaration(element, rules, property)]
    /\ pc' = "cascade-done"
    /\ UNCHANGED <<elements, rules, pairs, wcagVars, varVars, restVars>>

InitCascade ==
    /\ pc = "cascade-input"
    /\ elements = CascadeTree
    /\ rules = << >>
    /\ pairs = << >>
    /\ lookup = NoLookup
    /\ WcagIdle
    /\ VarIdle
    /\ RestIdle

NextCascade ==
    \/ \E rule \in CascadeRules : AddCascadeRule(rule)
    \/ \E e \in 1..Len(elements) : \E property \in CascadeProperties :
           FindBestDeclaration(e, property)

SpecCascade == InitCascade /\ [][NextCascade]_vars

(***************************************************************************)
(* Properties of the cascade (SpecCascade).                                *)
(***************************************************************************)
\* The specificity of each selector by the stated weights: id 100, class
\* 10, tag 1, universal 0, summed over all parts.
StatedSpecificity ==
    [sel \in CascadeSelectors \ {":root"} |->
        CASE sel = "*"         -> 0
          [] sel = "h2"        -> 1
          [] sel = ".card"     -> 10
          [] sel = "h2.card"   -> 1 + 10
          [] sel = "#title"    -> 100
          [] sel = "div h2"    -> 1 + 1
          [] sel = ".card h2"  -> 10 + 1
          [] sel = "body > h2" -> 1 + 1]

\* Which of the selectors match which element of CascadeTree, by the rules
\* of CSS: body is 1, div.card is 2, h2#title.card is 3.
StatedMatches ==
    [sel \in CascadeSelectors |->
        CASE sel = "*"         -> {1, 2, 3}
          [] sel = "h2"        -> {3}
          [] sel = ".card"     -> {2, 3}
          [] sel = "h2.card"   -> {3}
          [] sel = "#title"    -> {3}
          [] sel = "div h2"    -> {3}
          [] sel = ".card h2"  -> {3}
          [] sel = "body > h2" -> {}
          [] sel = ":root"     -> {}]

\* The places <<rule, declaration>> of the declarations for the property
\* looked up, in non-ignored rules whose selector matches the element.
CandidatesOfRule(r) ==
    {<<r, d>> : d \in {d \in 1..Len(rules[r].declarations) :
        /\ ~rules[r].ignored
        /\ lookup.element \in StatedMatches[rules[r].selector]
        /\ \/ rules[r].declarations[d].property = lookup.property
           \/ /\ lookup.property = "background-color"
              /\ rules[r].declarations[d].property = "background"}}
Candidates == UNION {CandidatesOfRule(r) : r \in 1..Len(rules)}
CandidateSpecificity(c) == StatedSpecificity[rules[c[1]].selector]
ComesBefore(c, d) == c[1] < d[1] \/ (c[1] = d[1] /\ c[2] < d[2])
\* Of maximal specificity, and the last of those of that specificity.
Wins(c) ==
    \A d \in Candidates \ {c} :
        \/ CandidateSpecificity(d) < CandidateSpecificity(c)
        \/ CandidateSpecificity(d) = CandidateSpecificity(c) /\ ComesBefore(d, c)

\* C2: findBestDeclaration returns, among the declarations for the property
\* in non-ignored rules whose selector matches the element, one of maximal
\* specificity (id 100, class 10, tag 1, universal 0, summed over the
\* parts), the last in rule-list order among equals; a background-color
\* lookup accepts a bare background declaration; null if no candidate.
C2_BestDeclaration ==
    pc = "cascade-done" =>
        IF Candidates = {} THEN lookup.result = None
        ELSE /\ lookup.result # None
             /\ \E c \in Candidates :
                    /\ Wins(c)
                    /\ lookup.result[1].declaration = rules[c[1]].declarations[c[2]]
                    /\ lookup.result[1].selector = rules[c[1]].selector
                    /\ lookup.result[1].specificity = CandidateSpecificity(c)

\* Two rules of equal specificity and different selectors both declare the
\* property for the element, and the later one is returned.
C2_Witness ==
    /\ pc = "cascade-done"
    /\ Len(rules) >= 2
    /\ <<1, 1>> \in Candidates
    /\ \E c \in Candidates :
        /\ c[1] > 1
        /\ Wins(c)
        /\ CandidateSpecificity(c) = CandidateSpecificity(<<1, 1>>)
        /\ rules[c[1]].selector # rules[1].selector
        /\ lookup.result # None
        /\ lookup.result[1].selector = rules[c[1]].selector

(***************************************************************************)
(* Properties of the pair assembly (SpecPairs).                            *)
(***************************************************************************)
PairIndexes == 1..Len(pairs)
PairsOfElement(e) == {k \in PairIndexes : pairs[k].element = e}

\* What each tier supplies for one side of element e: the inline style
\* (field), the utility class and the stylesheet (property).
InlineSupplies(e, field) ==
    /\ elements[e].inlineStyles # None
    /\ elements[e].inlineStyles[1][field] \notin {None, Some("")}
UtilityClass(e, property) ==
    IF property = "color" THEN resolveTailwindForeground(elements[e].classes)
    ELSE resolveTailwindBackground(elements[e].classes)
UtilitySupplies(e, property) == UtilityClass(e, property) # None
SheetSupplies(e, property) == findBestDeclaration(e, rules, property) # None
Supplied(e, property, field) ==
    InlineSupplies(e, field) \/ UtilitySupplies(e, property) \/ SheetSupplies(e, property)

\* The tier a ColorInfo comes from, by the way each tier labels it.
TierOfInfo(info) ==
    IF info.source = "inline" /\ info.selector = "inline" THEN "inline"
    ELSE IF info.selector \in ClassNames /\ info.original = info.selector THEN "utility"
    ELSE IF info.selector \in Selectors THEN "stylesheet"
    ELSE "default"

\* The tier priority demands for one side of e, and the text it supplies.
DemandedTier(e, property, field) ==
    IF InlineSupplies(e, field) THEN "inline"
    ELSE IF UtilitySupplies(e, property) THEN "utility"
    ELSE IF SheetSupplies(e, property) THEN "stylesheet"
    ELSE "default"
SideFromDemandedTier(info, e, property, field) ==
    LET tier == DemandedTier(e, property, field)
    IN  /\ TierOfInfo(info) = tier
        /\ tier = "inline" => info.original = elements[e].inlineStyles[1][field][1]
        /\ tier = "utility" => info.original = UtilityClass(e, property)[1].className
        /\ tier = "stylesheet" =>
               /\ info.original = findBestDeclaration(e, rules, property)[1].declaration.value
               /\ info.selector = findBestDeclaration(e, rules, property)[1].selector

\* C1: for every pair the foreground and the background are each resolved
\* by the priority inline style > utility class > best stylesheet
\* declaration > structural default, a lower tier only when every higher
\* tier supplies nothing for that side, and one side whatever the other.
C1_TierPriority ==
    \A k \in PairIndexes :
        /\ SideFromDemandedTier(pairs[k].foreground, pairs[k].element, "color", "color")
        /\ SideFromDemandedTier(pairs[k].background, pairs[k].element,
                                "background-color", "backgroundColor")

\* An element whose foreground all three tiers supply: the inline style
\* wins, and its background is the structural default.
C1_Witness ==
    \E k \in PairIndexes :
        LET e == pairs[k].element
        IN  /\ InlineSupplies(e, "color")
            /\ UtilitySupplies(e, "color")
            /\ SheetSupplies(e, "color")
            /\ pairs[k].foreground.source = "inline"
            /\ TierOfInfo(pairs[k].background) = "default"

\* C3: every pair belongs to an element with hasTextContent = true and
\* ignored = false, whatever rules, inline styles or classes match it.
C3_OnlyEligibleElements ==
    \A k \in PairIndexes :
        /\ elements[pairs[k].element].hasTextContent
        /\ ~elements[pairs[k].element].ignored

\* The loop is over, an ignored element with text has a colour of its own
\* from a matching rule, and it has no pair.
C3_Witness ==
    /\ pc = "pairs-done"
    /\ \E e \in 1..Len(elements) :
        /\ elements[e].ignored
        /\ elements[e].hasTextContent
        /\ SheetSupplies(e, "color")
        /\ PairsOfElement(e) = {}

OwnColorSupplied(e) ==
    Supplied(e, "color", "color") \/ Supplied(e, "background-color", "backgroundColor")

\* C4: an eligible element yields no pair exactly when none of its own
\* inline styles, utility classes or matching non-ignored rules supplies a
\* foreground or a background; otherwise it yields exactly one pair.
C4_PairIffOwnColor ==
    pc = "pairs-done" =>
        \A e \in 1..Len(elements) :
            (elements[e].hasTextContent /\ ~elements[e].ignored) =>
                Cardinality(PairsOfElement(e)) = (IF OwnColorSupplied(e) THEN 1 ELSE 0)

\* An eligible element without a colour of its own has no pair although an
\* ancestor and a root-level rule declare a background.
C4_Witness ==
    /\ pc = "pairs-done"
    /\ \E e \in 2..Len(elements) :
        /\ elements[e].hasTextContent /\ ~elements[e].ignored
        /\ ~OwnColorSupplied(e)
        /\ InlineSupplies(elements[e].parentElement, "backgroundColor")
        /\ \E r \in 1..Len(rules) : rules[r].selector = ":root" /\ ~rules[r].ignored
        /\ PairsOfElement(e) = {}

\* The strict ancestors of e, and those that have a background of their own.
RECURSIVE AncestorsOf(_)
AncestorsOf(e) ==
    IF elements[e].parentElement = 0 THEN {}
    ELSE {elements[e].parentElement} \cup AncestorsOf(elements[e].parentElement)
HasOwnBackground(a) == Supplied(a, "background-color", "backgroundColor")
BackgroundAncestors(e) == {a \in AncestorsOf(e) : HasOwnBackground(a)}
\* The nearest of them: none of the others lies between it and e.
IsNearestBackgroundAncestor(a, e) ==
    /\ a \in BackgroundAncestors(e)
    /\ \A b \in BackgroundAncestors(e) : a \notin AncestorsOf(b)

\* The r, g, b of the colour the text stands for, << >> if it is no colour.
Channels(text) ==
    LET c == parseColor(text)
    IN  IF c = None THEN None ELSE Some(<<c[1].r, c[1].g, c[1].b>>)
ChannelsOfInfo(info) ==
    IF info.rgb = None THEN None ELSE Some(<<info.rgb[1].r, info.rgb[1].g, info.rgb[1].b>>)

\* info is the background of ancestor a: its inline style, else its utility
\* class, else its best stylesheet declaration.
IsBackgroundOf(info, a) ==
    LET class == UtilityClass(a, "background-color")
        match == findBestDeclaration(a, rules, "background-color")
    IN  IF InlineSupplies(a, "backgroundColor")
        THEN /\ info.original = elements[a].inlineStyles[1].backgroundColor[1]
             /\ info.selector = "inherited:" \o elements[a].tagName
             /\ ChannelsOfInfo(info) = Channels(info.original)
        ELSE IF class # None
        THEN /\ info.original = class[1].className
             /\ info.selector = "inherited:" \o class[1].className
             /\ ChannelsOfInfo(info) = Channels(class[1].value)
        ELSE /\ info.original = match[1].declaration.value
             /\ info.selector = "inherited:" \o match[1].selector
             /\ ChannelsOfInfo(info) = Channels(ResolvedOrValue(match[1].declaration))

\* info is the background of a non-ignored root-level rule.
IsRootBackground(info) ==
    \E r \in 1..Len(rules) : \E d \in 1..Len(rules[r].declarations) :
        /\ ~rules[r].ignored
        /\ rules[r].selector \in {"body", "html", ":root"}
        /\ rules[r].declarations[d].property \in {"background-color", "background"}
        /\ info.original = rules[r].declarations[d].value
        /\ info.selector = "inherited:" \o rules[r].selector
        /\ ChannelsOfInfo(info) = Channels(ResolvedOrValue(rules[r].declarations[d]))
HasRootBackground ==
    \E r \in 1..Len(rules) : \E d \in 1..Len(rules[r].declarations) :
        /\ ~rules[r].ignored
        /\ rules[r].selector \in {"body", "html", ":root"}
        /\ rules[r].declarations[d].property \in {"background-color", "background"}

IsOpaqueWhite(info) ==
    /\ info.rgb # None
    /\ info.rgb[1] \in {Rgb(255, 255, 255), Rgba(255, 255, 255, AlphaDen)}
    /\ info.selector = "(default)"

\* C5: an element with an explicit foreground and no background of its own
\* takes its background from the nearest strict ancestor that has one
\* (inline style, then utility class, then best stylesheet declaration);
\* if no ancestor has one, from a root-level body/html/:root rule;
\* otherwise it is opaque white.
C5_InheritedBackground ==
    \A k \in PairIndexes :
        LET e == pairs[k].element
            bg == pairs[k].background
        IN  (Supplied(e, "color", "color")
             /\ ~Supplied(e, "background-color", "backgroundColor")) =>
                IF BackgroundAncestors(e) # {}
                THEN \E a \in BackgroundAncestors(e) :
                        IsNearestBackgroundAncestor(a, e) /\ IsBackgroundOf(bg, a)
                ELSE IF HasRootBackground THEN IsRootBackground(bg)
                ELSE IsOpaqueWhite(bg)

\* The parent and the grandparent both have a background, of different
\* colours, and the pair has the parent's.
C5_Witness ==
    \E k \in PairIndexes :
        LET e == pairs[k].element
            parent == elements[e].parentElement
        IN  /\ Supplied(e, "color", "color")
            /\ ~Supplied(e, "background-color", "backgroundColor")
            /\ parent # 0
            /\ elements[parent].parentElement # 0
            /\ HasOwnBackground(parent)
            /\ HasOwnBackground(elements[parent].parentElement)
            /\ IsBackgroundOf(pairs[k].background, parent)
            /\ ~IsBackgroundOf(pairs[k].background, elements[parent].parentElement)

\* C6: for every pair whose background colour is resolved (non-null), the
\* background is fully opaque after compositing: it carries no alpha below 1.
C6_BackgroundOpaque ==
    \A k \in PairIndexes :
        pairs[k].background.rgb # None =>
            \/ pairs[k].background.rgb[1].a = NoAlpha
            \/ pairs[k].background.rgb[1].a >= AlphaDen

(***************************************************************************)
(* Properties of the evaluator (SpecWcag).                                 *)
(***************************************************************************)

\* C7: evaluateContrast applies AA 4.5 / AAA 7 to normal text and AA 3 /
\* AAA 4.5 to large text: meetsAA iff ratio >= the AA threshold of the text
\* class, meetsAAA iff ratio >= its AAA threshold, level is 'pass' if meetsAAA,
\* 'aaa-only' if meetsAA only, 'aa-fail' otherwise; meetsAAA implies meetsAA.
C7_Thresholds ==
    pc = "wcag-done" =>
        LET large == isLargeText(sizeIn, weightIn)
            aa10 == IF large THEN 30 ELSE 45
            aaa10 == IF large THEN 45 ELSE 70
            r == evalOut.ratio
        IN  /\ evalOut.meetsAA <=> (10 * r.num >= aa10 * r.den)
            /\ evalOut.meetsAAA <=> (10 * r.num >= aaa10 * r.den)
            /\ evalOut.level = (IF evalOut.meetsAAA THEN "pass"
                                ELSE IF evalOut.meetsAA THEN "aaa-only"
                                ELSE "aa-fail")
            /\ evalOut.meetsAAA => evalOut.meetsAA

\* A large text whose ratio lies between 4.5 and 7 passes AAA, while the same
\* colours fail AAA as normal text.
C7_Witness ==
    /\ pc = "wcag-done"
    /\ isLargeText(sizeIn, weightIn)
    /\ evalOut.level = "pass"
    /\ evaluateContrast(fgIn, bgIn, None, None).level = "aaa-only"

\* The sizes of FontSizes that convert to at least 18px, and those that
\* convert to at least 14px but less than 18px (16px base).
AtLeast18px == {"24px", "18px", " 18PX ", "13.5pt", "1.125rem", "112.5%"}
From14To18px == {"17.99px", "16", "14px", "10.5pt", "0.875em", "100%"}
\* The weights of FontWeights that are at least 700.
AtLeast700 == {"900", "700", "bold", "bolder"}

\* C8: isLargeText is true iff the size converts to at least 18px, or to at
\* least 14px with a weight of at least 700; a null, missing or statically
\* undeterminable size is normal text.
C8_LargeText ==
    pc = "wcag-done" =>
        (evalOut.isLargeText <=>
            /\ sizeIn # None
            /\ \/ sizeIn[1] \in AtLeast18px
               \/ /\ sizeIn[1] \in From14To18px
                  /\ weightIn # None
                  /\ weightIn[1] \in AtLeast700)

\* 10.5pt is 14px: large with the weight 'bolder'.
C8_Witness ==
    /\ pc = "wcag-done"
    /\ sizeIn = Some("10.5pt")
    /\ weightIn = Some("bolder")
    /\ evalOut.isLargeText

Opaque(c) == c.a = NoAlpha \/ c.a >= AlphaDen

\* C9 as stated: contrastRatio(a, b) = contrastRatio(b, a) for all colours,
\* with or without an alpha channel, and the ratio is never below 1.
C9_SymmetricForAll ==
    pc = "wcag-done" =>
        /\ evalOut.ratio = contrastRatio(bgIn, fgIn)
        /\ evalOut.ratio.num >= evalOut.ratio.den

\* C9 amended: contrastRatio(a, b) = contrastRatio(b, a) for all colours a and
\* b that are opaque (alpha absent or 1); the ratio is never below 1 for any
\* a and b.
C9_SymmetricOpaque ==
    pc = "wcag-done" =>
        /\ (Opaque(fgIn) /\ Opaque(bgIn)) => evalOut.ratio = contrastRatio(bgIn, fgIn)
        /\ evalOut.ratio.num >= evalOut.ratio.den

\* Two different opaque colours, the darker one first.
C9_Witness ==
    /\ pc = "wcag-done"
    /\ Opaque(fgIn) /\ Opaque(bgIn)
    /\ relativeLuminance(fgIn) < relativeLuminance(bgIn)
    /\ evalOut.ratio.num > evalOut.ratio.den

(***************************************************************************)
(* resolver/custom-properties.ts                                           *)
(*                                                                         *)
(* A value is the node list postcss-value-parser makes of it, flattened in *)
(* document order: a word node stands for any text without a var() call    *)
(* (the text around a var() nested in another function included), a var    *)
(* node for one var(name[, fallback]) call, its fallback again a value     *)
(* (<< >> when absent or blank).  The recursion of resolveCustomProperty   *)
(* is kept as a stack of activation records, the innermost call last.      *)
(***************************************************************************)
MAX_DEPTH == 10

Word(text) == [type |-> "word", value |-> text, fallback |-> << >>]
Var(name, fallback) == [type |-> "var", value |-> name, fallback |-> fallback]

\* value.includes('var(')
IncludesVar(value) == \E i \in 1..Len(value) : value[i].type = "var"

Frame(value, depth) ==
    [nodes |-> value, i |-> 1, out |-> << >>, hasUnresolved |-> FALSE, depth |-> depth]

\* The call resolveCustomProperty(value, properties, depth) returns at once
\* (lines 10-11) or walks the parsed value (line 17).
ReturnsAtOnce(value, depth) == depth >= MAX_DEPTH \/ ~IncludesVar(value)
\* The depth guard handing the value back instead of null.
ResultAtOnce_keepsValue(value, depth) == Some(value)

ResultAtOnce(value, depth) == IF depth >= MAX_DEPTH THEN None ELSE Some(value)

\* The caller dropping a var() that did not resolve instead of marking the
\* value unresolved.
Deliver_dropsUnresolved(frame, resolvedValue) ==
    IF resolvedValue # None
    THEN [frame EXCEPT !.out = @ \o resolvedValue[1], !.i = @ + 1]
    ELSE [frame EXCEPT !.i = @ + 1]

\* The caller's record after the callee returned resolvedValue (lines 31-38):
\* the var node becomes a word node with the resolved text, or the value is
\* marked unresolved; the walk goes on with the next node either way.
Deliver(frame, resolvedValue) ==
    IF resolvedValue # None
    THEN [frame EXCEPT !.out = @ \o resolvedValue[1], !.i = @ + 1]
    ELSE [frame EXCEPT !.hasUnresolved = TRUE, !.i = @ + 1]

Top == stack[Len(stack)]
Rest == SubSeq(stack, 1, Len(stack) - 1)

\* The top-level call resolveCustomProperty(callValue, props).
Resolve ==
    /\ pc = "var-input"
    /\ IF ReturnsAtOnce(callValue, 0)
       THEN /\ ret' = ResultAtOnce(callValue, 0)
            /\ pc' = "var-done"
            /\ stack' = stack
       ELSE /\ stack' = <<Frame(callValue, 0)>>
            /\ pc' = "var-walk"
            /\ ret' = ret
    /\ UNCHANGED <<props, callValue, pairVars, wcagVars, restVars>>

\* parsed.walk visits a node that is not a var() call: it is kept as it is.
WalkWord ==
    /\ pc = "var-walk"
    /\ Top.i <= Len(Top.nodes)
    /\ Top.nodes[Top.i].type = "word"
    /\ stack' = Rest \o <<[Top EXCEPT !.out = Append(@, Top.nodes[Top.i]), !.i = @ + 1]>>
    /\ UNCHANGED <<pc, ret, props, callValue, pairVars, wcagVars, restVars>>

\* parsed.walk visits a var() call (lines 18-40).
WalkVar ==
    /\ pc = "var-walk"
    /\ Top.i <= Len(Top.nodes)
    /\ Top.nodes[Top.i].type = "var"
    /\ LET node == Top.nodes[Top.i]
           propName == node.value
           fallback == node.fallback
           depth == Top.depth + 1
       IN  IF propName \in DOMAIN props \/ fallback # << >>
           THEN LET arg == IF propName \in DOMAIN props THEN props[propName] ELSE fallback
                IN  IF ReturnsAtOnce(arg, depth)
                    THEN stack' = Rest \o <<Deliver(Top, ResultAtOnce(arg, depth))>>
                    ELSE stack' = Append(stack, Frame(arg, depth))
           ELSE stack' = Rest \o <<Deliver(Top, None)>>
    /\ UNCHANGED <<pc, ret, props, callValue, pairVars, wcagVars, restVars>>

\* The walk of the innermost call is over (lines 43-45): it returns null if
\* a var() stayed unresolved, else the stringified nodes.
Return ==
    /\ pc = "var-walk"
    /\ Top.i > Len(Top.nodes)
    /\ LET result == IF Top.hasUnresolved THEN None ELSE Some(Top.out)
       IN  IF Len(stack) = 1
           THEN /\ ret' = result
                /\ pc' = "var-done"
                /\ stack' = << >>
           ELSE /\ stack' = SubSeq(stack, 1, Len(stack) - 2)
                                \o <<Deliver(stack[Len(stack) - 1], result)>>
                /\ UNCHANGED <<pc, ret>>
    /\ UNCHANGED <<props, callValue, pairVars, wcagVars, restVars>>

\* The property names and the values of the model.
Names == {"--a", "--b", "--c"}
NoFallback == << >>
Values ==
    {<<Word("red")>>}
    \cup {<<Var(n, NoFallback)>> : n \in Names}
    \cup {<<Var(n, <<Word("blue")>>)>> : n \in {"--b", "--c"}}
    \cup {<<Var("--c", <<Var("--a", NoFallback)>>)>>}
    \cup {<<Word("color-mix(in srgb, "), Var("--a", NoFallback), Word(", "),
            Var("--b", NoFallback), Word(")")>>}

\* Every map from some of the names to values.
PropertyMaps == UNION {[D -> Values] : D \in SUBSET Names}

InitVar ==
    /\ pc = "var-input"
    /\ props \in PropertyMaps
    /\ callValue \in Values
    /\ stack = << >>
    /\ ret = None
    /\ PairIdle
    /\ WcagIdle
    /\ RestIdle

NextVar == Resolve \/ WalkWord \/ WalkVar \/ Return

SpecVar == InitVar /\ [][NextVar]_vars

\* The resolver is synchronous code: a call that can take a step takes it.
SpecVarFair == SpecVar /\ WF_vars(NextVar)

(***************************************************************************)
(* resolver/custom-properties.ts as called by the analyzer: declaration    *)
(* values and property values are strings, and the table gives the nodes   *)
(* postcss-value-parser makes of the value texts of the model.             *)
(***************************************************************************)
ValueNodes ==
    [t \in {"red", "black", "white", "#767676", "constructor", "var(--x)", "var(--y)",
            "var(--y, white)"} |->
        CASE t = "var(--x)" -> <<Var("--x", NoFallback)>>
          [] t = "var(--y)" -> <<Var("--y", NoFallback)>>
          [] t = "var(--y, white)" -> <<Var("--y", Some("white"))>>
          [] OTHER -> <<Word(t)>>]

\* valueParser.stringify of nodes that are all word nodes.
RECURSIVE Stringify(_)
Stringify(nodes) ==
    IF nodes = << >> THEN "" ELSE Head(nodes).value \o Stringify(Tail(nodes))

\* The names of the custom properties of the model; a Map<string, string>
\* holds for every name its value, or None if the map has no such key.
CustomNames == {"--x", "--y"}
NoProperties == [n \in CustomNames |-> None]

\* resolveCustomProperty(value, properties, depth) as a function of its
\* arguments; the fallback of a var() node holds the text of the fallback.
RECURSIVE resolveCustomProperty(_, _, _)
RECURSIVE WalkFrom(_, _, _, _)
\* The walk from node i on: << >> if a var() stays unresolved, else the
\* nodes with every var() node turned into a word node.
WalkFrom(nodes, properties, depth, i) ==
    IF i > Len(nodes) THEN Some(<< >>)
    ELSE LET node == nodes[i]
             resolvedValue ==
                 IF node.type # "var" THEN Some(node.value)
                 ELSE IF properties[node.value] # None
                 THEN resolveCustomProperty(properties[node.value][1], properties, depth + 1)
                 ELSE IF node.fallback # NoFallback
                 THEN resolveCustomProperty(node.fallback[1], properties, depth + 1)
                 ELSE None
             rest == WalkFrom(nodes, properties, depth, i + 1)
         IN  IF resolvedValue = None \/ rest = None THEN None
             ELSE Some(<<Word(resolvedValue[1])>> \o rest[1])
resolveCustomProperty(value, properties, depth) ==
    IF depth >= MAX_DEPTH THEN None
    ELSE IF ~IncludesVar(ValueNodes[value]) THEN Some(value)
    ELSE LET walked == WalkFrom(ValueNodes[value], properties, depth, 1)
         IN  IF walked = None THEN None ELSE Some(Stringify(walked[1]))

\* resolveDeclarationValues keeping a resolvedValue that is already set.
ResolvedDeclaration_keepsResolved(decl, customProperties) ==
    IF decl.resolvedValue # None THEN decl
    ELSE IF IncludesVar(ValueNodes[decl.value])
    THEN [decl EXCEPT !.resolvedValue = resolveCustomProperty(decl.value, customProperties, 0)]
    ELSE [decl EXCEPT !.resolvedValue = Some(decl.value)]

\* The body of the loops of resolveDeclarationValues: the declaration after
\* the assignment to decl.resolvedValue.
ResolvedDeclaration(decl, customProperties) ==
    IF IncludesVar(ValueNodes[decl.value])
    THEN [decl EXCEPT !.resolvedValue = resolveCustomProperty(decl.value, customProperties, 0)]
    ELSE [decl EXCEPT !.resolvedValue = Some(decl.value)]

\* The rule objects after resolveDeclarationValues(ruleList, customProperties),
\* which assigns in place.
resolveDeclarationValues(ruleList, customProperties) ==
    [r \in 1..Len(ruleList) |->
        [ruleList[r] EXCEPT !.declarations =
            [d \in 1..Len(ruleList[r].declarations) |->
                ResolvedDeclaration(ruleList[r].declarations[d], customProperties)]]]

(***************************************************************************)
(* matcher/ignore-filter.ts                                                *)
(***************************************************************************)
AlphaOrOne(c) == IF c.a = NoAlpha THEN AlphaDen ELSE c.a

rgbEquals(a, b) ==
    a.r = b.r /\ a.g = b.g /\ a.b = b.b /\ AlphaOrOne(a) = AlphaOrOne(b)

\* What the tests of buildSelectorMatcher make of the selector texts of the
\* model: the branch taken, the text after the marker, and that text cut
\* at its '*' (before, after) when it has one.
IgnoreSelectorMatch ==
    [sel \in {"h2", "p", ".brand-*", ".brand-badge", ".alert-*", "[role]"} |->
        CASE sel = ".brand-*" -> [kind |-> "class", name |-> "brand-*",
                                  wildcard |-> Some(<<"brand-", "">>)]
          [] sel = ".alert-*" -> [kind |-> "class", name |-> "alert-*",
                                  wildcard |-> Some(<<"alert-", "">>)]
          [] sel = ".brand-badge" -> [kind |-> "class", name |-> "brand-badge",
                                      wildcard |-> None]
          [] sel = "[role]" -> [kind |-> "none", name |-> "", wildcard |-> None]
          [] OTHER -> [kind |-> "tag", name |-> sel, wildcard |-> None]]

\* The texts a '.*' of the regular expression can stand for in the class
\* names of the model.
Fragments == {"", "badge", "brand-badge", "-badge"}

\* wildcardToRegex(pattern).test(text) for a pattern with one '*': the
\* text is the part before, anything, the part after.
regexTest(wildcard, text) ==
    \E x \in Fragments : wildcard[1] \o x \o wildcard[2] = text

\* buildSelectorMatcher comparing the pattern with the class names as they
\* are written, '*' included.
SelectorMatches_literal(selector, element) ==
    LET m == IgnoreSelectorMatch[selector]
    IN  CASE m.kind = "tag" -> elements[element].tagName = m.name
          [] m.kind = "class" ->
                \E c \in 1..Len(elements[element].classes) :
                    elements[element].classes[c] = m.name
          [] OTHER -> FALSE

\* buildSelectorMatcher(selector) applied to a result of the element.
SelectorMatches(selector, element) ==
    LET m == IgnoreSelectorMatch[selector]
    IN  CASE m.kind = "tag" -> elements[element].tagName = m.name
          [] m.kind = "class" /\ m.wildcard # None ->
                \E c \in 1..Len(elements[element].classes) :
                    regexTest(m.wildcard[1], elements[element].classes[c])
          [] m.kind = "class" ->
                \E c \in 1..Len(elements[element].classes) :
                    elements[element].classes[c] = m.name
          [] OTHER -> FALSE

\* The colours parseColor makes of the texts, one entry per text.
ParsedTexts(texts) == [k \in 1..Len(texts) |-> parseColor(texts[k])]

\* The return of parseIgnoreConfig: null if the configuration has no rule.
IgnoreRules(parsed) ==
    IF Len(parsed.colors) > 0 \/ Len(parsed.pairs) > 0 \/ Len(parsed.selectors) > 0
    THEN Some(parsed)
    ELSE None

\* parseIgnoreConfig with the texts of the configuration parsed: an
\* exception of parseColor leaves the function, and a null is left out.
ParsedIgnore(selectors, colors, foregrounds, backgrounds) ==
    IF \E k \in 1..Len(colors) : IsThrown(colors[k]) THEN HexOfNonString
    ELSE IF \E k \in 1..Len(foregrounds) : IsThrown(foregrounds[k]) \/ IsThrown(backgrounds[k])
    THEN HexOfNonString
    ELSE Some(IgnoreRules(
             [colors |-> SelectSeq(colors, LAMBDA c : c # None),
              pairs |-> SelectSeq([k \in 1..Len(foregrounds) |->
                                      [foreground |-> foregrounds[k],
                                       background |-> backgrounds[k]]],
                                  LAMBDA q : q.foreground # None /\ q.background # None),
              selectors |-> selectors]))

\* parseIgnoreConfig(config): None for null, else the parsed configuration.
parseIgnoreConfig(config) ==
    IF config = None THEN Some(None)
    ELSE ParsedIgnore(config[1].selectors, ParsedTexts(config[1].colors),
                      ParsedTexts([k \in 1..Len(config[1].pairs) |->
                                      config[1].pairs[k].foreground]),
                      ParsedTexts([k \in 1..Len(config[1].pairs) |->
                                      config[1].pairs[k].background]))

shouldIgnoreResult(result, parsed) ==
    \/ \E k \in 1..Len(parsed.colors) :
          \/ result.foreground.rgb # None /\ rgbEquals(result.foreground.rgb[1], parsed.colors[k][1])
          \/ result.background.rgb # None /\ rgbEquals(result.background.rgb[1], parsed.colors[k][1])
    \/ \E k \in 1..Len(parsed.pairs) :
          /\ result.foreground.rgb # None /\ result.background.rgb # None
          /\ rgbEquals(result.foreground.rgb[1], parsed.pairs[k].foreground[1])
          /\ rgbEquals(result.background.rgb[1], parsed.pairs[k].background[1])
    \/ \E k \in 1..Len(parsed.selectors) : SelectorMatches(parsed.selectors[k], result.element)

\* results.filter(r => !shouldIgnoreResult(r, parsed)), or results as they
\* are for a null configuration, or what parseIgnoreConfig threw.
FilteredWith(results, parsed) ==
    IF IsThrown(parsed) THEN parsed
    ELSE IF parsed[1] = None THEN Some(results)
    ELSE Some(SelectSeq(results, LAMBDA r : ~shouldIgnoreResult(r, parsed[1][1])))

\* applyIgnoreFilter(results, config): the results kept, or what was thrown.
applyIgnoreFilter(results, config) == FilteredWith(results, parseIgnoreConfig(config))

(***************************************************************************)
(* analyzer.ts.  The files of the model hold the same page,                *)
(*   <body><p class="brand-badge">..</p><h2>..</h2></body>,                *)
(* and differ in their <style> rules, their :root custom properties and    *)
(* the stylesheets they link.                                              *)
(***************************************************************************)
PageElement(tagName, classes, parentElement) ==
    [tagName |-> tagName, classes |-> classes, id |-> None, inlineStyles |-> None,
     hasTextContent |-> TRUE, ignored |-> FALSE, parentElement |-> parentElement]

PageTree ==
    <<PageElement("body", << >>, 0), PageElement("p", <<"brand-badge">>, 1),
      PageElement("h2", << >>, 1)>>

PropertiesWith(name, value) == [n \in CustomNames |-> IF n = name THEN Some(value) ELSE None]

NoLinkedCss == [rules |-> << >>, customProperties |-> NoProperties]

\* The files on disk: whether parseAstroFile can read and parse the file,
\* what it finds in it, and what resolveLinkedCss returns for its links.
Disk ==
    [path \in {"missing.astro", "proto.astro", "plain.astro", "own.astro", "linked.astro",
               "both.astro"} |->
        CASE path = "missing.astro" ->
                [readable |-> FALSE, styleRules |-> << >>, customProperties |-> NoProperties,
                 autoDetectedCss |-> NoLinkedCss]
          [] path = "proto.astro" ->
                [readable |-> TRUE,
                 styleRules |-> <<Rule("h2", <<UnresolvedDecl("color", "constructor")>>, FALSE)>>,
                 customProperties |-> NoProperties, autoDetectedCss |-> NoLinkedCss]
          [] path = "plain.astro" ->
                [readable |-> TRUE,
                 styleRules |-> <<Rule("h2", <<UnresolvedDecl("color", "#767676")>>, FALSE)>>,
                 customProperties |-> NoProperties, autoDetectedCss |-> NoLinkedCss]
          [] path = "own.astro" ->
                [readable |-> TRUE,
                 styleRules |-> <<Rule("h2", <<UnresolvedDecl("color", "var(--x)")>>, FALSE)>>,
                 customProperties |-> PropertiesWith("--x", "#767676"),
                 autoDetectedCss |-> NoLinkedCss]
          [] path = "linked.astro" ->
                [readable |-> TRUE,
                 styleRules |-> <<Rule("h2", <<UnresolvedDecl("color", "var(--x)")>>, FALSE)>>,
                 customProperties |-> NoProperties,
                 autoDetectedCss |->
                     [rules |-> <<Rule("p", <<UnresolvedDecl("color", "var(--y)")>>, FALSE)>>,
                      customProperties |-> PropertiesWith("--x", "black")]]
          [] OTHER ->
                [readable |-> TRUE, styleRules |-> << >>,
                 customProperties |-> PropertiesWith("--x", "#767676"),
                 autoDetectedCss |->
                     [rules |-> << >>, customProperties |-> PropertiesWith("--x", "black")]]]

Paths == DOMAIN Disk

\* parseAstroFile(filePath): the parsed file, or the exception of readFile.
parseAstroFile(filePath) ==
    IF Disk[filePath].readable
    THEN Some([filePath |-> filePath, htmlNodes |-> PageTree,
               styleRules |-> Disk[filePath].styleRules,
               customProperties |-> Disk[filePath].customProperties])
    ELSE Threw("Error", "ENOENT: no such file or directory")

\* Map.set of every entry of from into the map into.
SetAll(into, from) == [n \in CustomNames |-> IF from[n] # None THEN from[n] ELSE into[n]]

\* An optional map of the options that is undefined adds nothing.
OrNoProperties(map) == IF map = None THEN NoProperties ELSE map[1]

\* The merge with the external tokens set last.
MergedProperties_tokensLast(opts, autoDetectedCss, parsed) ==
    SetAll(SetAll(SetAll(SetAll(NoProperties, autoDetectedCss.customProperties),
                         OrNoProperties(opts.externalCustomProperties)),
                  parsed.customProperties),
           OrNoProperties(opts.externalTokens))

\* allProperties after the four loops of analyzeFile.
MergedProperties(opts, autoDetectedCss, parsed) ==
    SetAll(SetAll(SetAll(SetAll(NoProperties, OrNoProperties(opts.externalTokens)),
                         autoDetectedCss.customProperties),
                  OrNoProperties(opts.externalCustomProperties)),
           parsed.customProperties)

\* allRules: the rule objects of the three sources in one list.
AllRules(autoDetectedCss, external, parsed) ==
    autoDetectedCss.rules \o external \o parsed.styleRules

\* The pairs, or the exception of the first parseColor that throws.
PairsOrThrown(built) ==
    IF \E k \in 1..Len(built) :
          IsThrown(built[k].foreground.rgb) \/ IsThrown(built[k].background.rgb)
    THEN HexOfNonString
    ELSE Some(built)

\* buildColorPairs(htmlNodes, ruleList) for the nodes in elements.
buildColorPairs(ruleList) == PairsOrThrown(PairsFrom(1, ruleList))

IsUnresolvable(pair) == pair.foreground.rgb = None \/ pair.background.rgb = None

AnalysisErrorOf(pair) == [type |-> "color-resolve-error", element |-> pair.element]

ContrastResultWith(filePath, pair, evaluation) ==
    [filePath |-> filePath, element |-> pair.element,
     foreground |-> pair.foreground, background |-> pair.background,
     ratio |-> evaluation.ratio, meetsAA |-> evaluation.meetsAA,
     meetsAAA |-> evaluation.meetsAAA, level |-> evaluation.level,
     isLargeText |-> evaluation.isLargeText]

ContrastResultOf(filePath, pair) ==
    ContrastResultWith(filePath, pair,
                       evaluateContrast(pair.foreground.rgb[1], pair.background.rgb[1],
                                        pair.fontSize, pair.fontWeight))

\* The loop over the pairs: results and errors in the order of the pairs.
ResultsOf(filePath, builtPairs) ==
    LET resolvable == SelectSeq(builtPairs, LAMBDA pair : ~IsUnresolvable(pair))
    IN  [k \in 1..Len(resolvable) |-> ContrastResultOf(filePath, resolvable[k])]

ErrorsOf(builtPairs) ==
    LET unresolved == SelectSeq(builtPairs, IsUnresolvable)
    IN  [k \in 1..Len(unresolved) |-> AnalysisErrorOf(unresolved[k])]

Count(seq, Test(_)) == Len(SelectSeq(seq, Test))

\* The stats with the pairs counted before the ignore filter.
StatsOf_beforeFilter(parsed, results, filteredResults, unresolvable) ==
    [elementsAnalyzed |-> Len(parsed.htmlNodes),
     pairsChecked |-> Len(results),
     passing |-> Count(filteredResults, LAMBDA r : r.meetsAA),
     aaFailing |-> Count(filteredResults, LAMBDA r : ~r.meetsAA),
     aaaOnlyFailing |-> Count(filteredResults, LAMBDA r : r.meetsAA /\ ~r.meetsAAA),
     unresolvable |-> unresolvable]

\* The stats object of the value analyzeFile returns.
StatsOf(parsed, results, filteredResults, unresolvable) ==
    [elementsAnalyzed |-> Len(parsed.htmlNodes),
     pairsChecked |-> Len(filteredResults),
     passing |-> Count(filteredResults, LAMBDA r : r.meetsAA),
     aaFailing |-> Count(filteredResults, LAMBDA r : ~r.meetsAA),
     aaaOnlyFailing |-> Count(filteredResults, LAMBDA r : r.meetsAA /\ ~r.meetsAAA),
     unresolvable |-> unresolvable]

\* What analyzeFile returns when parseAstroFile throws.
ParseErrorResult(filePath) ==
    [filePath |-> filePath, results |-> << >>,
     errors |-> <<[type |-> "parse-error", element |-> 0]>>,
     stats |-> [elementsAnalyzed |-> 0, pairsChecked |-> 0, passing |-> 0, aaFailing |-> 0,
                aaaOnlyFailing |-> 0, unresolvable |-> 0]]

\* The return of analyzeFile, or what applyIgnoreFilter threw.
FilteredOutcome(filePath, parsed, results, errors, filteredResults) ==
    IF IsThrown(filteredResults) THEN filteredResults
    ELSE Some([filePath |-> filePath, results |-> filteredResults[1], errors |-> errors,
               stats |-> StatsOf(parsed, results, filteredResults[1], Len(errors))])

\* analyzeFile from the loop over the pairs on, or what buildColorPairs threw.
OutcomeOf(filePath, parsed, opts, built) ==
    IF IsThrown(built) THEN built
    ELSE FilteredOutcome(filePath, parsed, ResultsOf(filePath, built[1]), ErrorsOf(built[1]),
                         applyIgnoreFilter(ResultsOf(filePath, built[1]), opts.ignore))

\* analyzeFile after resolveDeclarationValues; the external rules are the
\* objects of allRules after the first and before the last.
AnalyzeResolved(filePath, parsed, opts, first, last, allProperties, allRules) ==
    [out |-> OutcomeOf(filePath, parsed, opts, buildColorPairs(allRules)),
     externalCssRules |-> SubSeq(allRules, first + 1, last),
     allProperties |-> allProperties]

\* analyzeFile from the merge of the custom properties to the return, which
\* runs without an await: what the call returns or throws (out), the
\* external rule objects as the call leaves them, and the merged map.
AnalyzeParsed(filePath, parsed, autoDetectedCss, opts, external) ==
    AnalyzeResolved(filePath, parsed, opts, Len(autoDetectedCss.rules),
                    Len(autoDetectedCss.rules) + Len(external),
                    MergedProperties(opts, autoDetectedCss, parsed),
                    resolveDeclarationValues(AllRules(autoDetectedCss, external, parsed),
                                             MergedProperties(opts, autoDetectedCss, parsed)))

\* A whole call analyzeFile(filePath, opts) that no other call interleaves.
AnalyzeAlone(filePath, opts, external) ==
    LET parsed == parseAstroFile(filePath)
    IN  IF IsThrown(parsed)
        THEN [out |-> Some(ParseErrorResult(filePath)), externalCssRules |-> external,
              allProperties |-> NoProperties]
        ELSE AnalyzeParsed(filePath, parsed[1], Disk[filePath].autoDetectedCss, opts, external)

(***************************************************************************)
(* The options of the model.                                               *)
(***************************************************************************)
IgnoreConfig(colors, colorPairs, selectors) ==
    [colors |-> colors, pairs |-> colorPairs, selectors |-> selectors]

IgnoreChoices ==
    {None,
     Some(IgnoreConfig(<< >>, << >>, <<".brand-*">>)),
     Some(IgnoreConfig(<<"#767676">>, << >>, << >>)),
     Some(IgnoreConfig(<< >>, <<[foreground |-> "red", background |-> "white"]>>, << >>)),
     Some(IgnoreConfig(<< >>, << >>, <<"[role]", ".alert-*">>))}

TokenMap == [n \in CustomNames |-> IF n = "--x" THEN Some("red") ELSE Some("white")]

OptionChoices ==
    [externalTokens : {None, Some(TokenMap)},
     externalCustomProperties : {None, Some(PropertiesWith("--x", "white"))},
     ignore : IgnoreChoices]

\* options.externalCssRules as parseCssBlock makes them: no declaration
\* resolved yet.
ExternalRuleChoices ==
    {<< >>,
     <<Rule("p", <<UnresolvedDecl("color", "red")>>, FALSE)>>,
     <<Rule("p", <<UnresolvedDecl("color", "var(--x)")>>, FALSE)>>}

NoCall == << >>

\* What a call of analyzeFile was given and what it made of it.
CallRecord(filePath, before, analysis) ==
    [filePath |-> filePath, before |-> before, allProperties |-> analysis.allProperties,
     out |-> analysis.out]

(***************************************************************************)
(* analyzeFiles(filePaths, options): the files one after the other, each   *)
(* call of analyzeFile awaited before the next one starts.                 *)
(***************************************************************************)
MaxFiles == 2

PathLists == UNION {[1..n -> Paths] : n \in 1..MaxFiles}

InitFiles ==
    /\ pc = "files-loop"
    /\ elements = PageTree
    /\ rules = << >> /\ pairs = << >> /\ lookup = NoLookup
    /\ WcagIdle
    /\ VarIdle
    /\ ColorIdle
    /\ options \in OptionChoices
    /\ externalCssRules \in ExternalRuleChoices
    /\ filePaths \in PathLists
    /\ fileResults = << >>
    /\ filesOut = None
    /\ call = NoCall
    /\ runs = << >>
    /\ CssIdle
    /\ HostIdle

\* One iteration of the loop: results.push(await analyzeFile(filePath,
\* options)); an exception of analyzeFile rejects the promise of analyzeFiles.
AnalyzeNextFile ==
    /\ pc = "files-loop"
    /\ Len(fileResults) < Len(filePaths)
    /\ \E analysis \in {AnalyzeAlone(filePaths[Len(fileResults) + 1], options,
                                      externalCssRules)} :
           /\ call' = CallRecord(filePaths[Len(fileResults) + 1], externalCssRules, analysis)
           /\ externalCssRules' = analysis.externalCssRules
           /\ IF IsThrown(analysis.out)
              THEN /\ filesOut' = analysis.out
                   /\ pc' = "files-rejected"
                   /\ UNCHANGED fileResults
              ELSE /\ fileResults' = Append(fileResults, analysis.out[1])
                   /\ UNCHANGED <<filesOut, pc>>
    /\ UNCHANGED <<pairVars, wcagVars, varVars, hostVars, colorVars, cssVars, options, filePaths, runs>>

\* return results
ReturnFileResults ==
    /\ pc = "files-loop"
    /\ Len(fileResults) = Len(filePaths)
    /\ filesOut' = Some(fileResults)
    /\ pc' = "files-done"
    /\ UNCHANGED <<pairVars, wcagVars, varVars, hostVars, colorVars, cssVars, options,
                   externalCssRules, filePaths, fileResults, call, runs>>

NextFiles == AnalyzeNextFile \/ ReturnFileResults

SpecFiles == InitFiles /\ [][NextFiles]_vars

(***************************************************************************)
(* Two calls of analyzeFile in flight with the same options object, as     *)
(* under Promise.all.  A call gives up control at its two awaits only;     *)
(* between them and after the second its code runs without interruption.   *)
(***************************************************************************)
Run(filePath) ==
    [filePath |-> filePath, at |-> "parseAstroFile", parsed |-> None, out |-> None]

InitRuns ==
    /\ pc = "runs"
    /\ elements = PageTree
    /\ rules = << >> /\ pairs = << >> /\ lookup = NoLookup
    /\ WcagIdle
    /\ VarIdle
    /\ ColorIdle
    /\ options \in OptionChoices
    /\ externalCssRules \in ExternalRuleChoices
    /\ filePaths = << >>
    /\ fileResults = << >>
    /\ filesOut = None
    /\ call = NoCall
    /\ CssIdle
    /\ \E first \in Paths : \E second \in Paths \ {first} :
          runs = <<Run(first), Run(second)>>
    /\ HostIdle

\* The continuation of `await parseAstroFile(filePath)`: the catch block
\* returns, or the call goes on to `await resolveLinkedCss(...)`.
AfterParse(i) ==
    /\ pc = "runs"
    /\ runs[i].at = "parseAstroFile"
    /\ LET parsed == parseAstroFile(runs[i].filePath)
       IN  IF IsThrown(parsed)
           THEN runs' = [runs EXCEPT ![i].at = "returned",
                                     ![i].out = Some(ParseErrorResult(runs[i].filePath))]
           ELSE runs' = [runs EXCEPT ![i].at = "resolveLinkedCss", ![i].parsed = parsed]
    /\ UNCHANGED <<pc, pairVars, wcagVars, varVars, hostVars, colorVars, cssVars, options,
                   externalCssRules, filePaths, fileResults, filesOut, call>>

\* The continuation of `await resolveLinkedCss(...)`: the rest of the call.
AfterLinkedCss(i) ==
    /\ pc = "runs"
    /\ runs[i].at = "resolveLinkedCss"
    /\ \E analysis \in {AnalyzeParsed(runs[i].filePath, runs[i].parsed[1],
                                       Disk[runs[i].filePath].autoDetectedCss, options,
                                       externalCssRules)} :
           /\ runs' = [runs EXCEPT ![i].at = IF IsThrown(analysis.out) THEN "rejected"
                                             ELSE "returned",
                                   ![i].out = analysis.out]
           /\ externalCssRules' = analysis.externalCssRules
           /\ call' = CallRecord(runs[i].filePath, externalCssRules, analysis)
    /\ UNCHANGED <<pc, pairVars, wcagVars, varVars, hostVars, colorVars, cssVars, options, filePaths,
                   fileResults, filesOut>>

NextRuns == \E i \in 1..2 : AfterParse(i) \/ AfterLinkedCss(i)

SpecRuns == InitRuns /\ [][NextRuns]_vars

(***************************************************************************)
(* resolver/css-auto-resolver.ts: resolveLinkedCss(hrefs, baseDir).        *)
(* Paths are texts; the directories of the model are the root "", /site    *)
(* and the directories below it.                                           *)
(***************************************************************************)
\* How an href reads: an external URL, or a file name below the base
\* directory (dir "."), in its subdirectory sub, or in its parent ("..").
HrefMatch ==
    [href \in {"a.css", "./a.css", "b.css", "sub/c.css", "../a.css", "gone.css",
               "http://example.com/x.css", "https://cdn.example.com/x.css",
               "//cdn.example.com/x.css"} |->
        CASE href \in {"a.css", "./a.css"} -> [external |-> FALSE, dir |-> ".", file |-> "a.css"]
          [] href = "b.css" -> [external |-> FALSE, dir |-> ".", file |-> "b.css"]
          [] href = "gone.css" -> [external |-> FALSE, dir |-> ".", file |-> "gone.css"]
          [] href = "sub/c.css" -> [external |-> FALSE, dir |-> "sub", file |-> "c.css"]
          [] href = "../a.css" -> [external |-> FALSE, dir |-> "..", file |-> "a.css"]
          [] OTHER -> [external |-> TRUE, dir |-> "", file |-> ""]]

\* href.startsWith('http://') || href.startsWith('https://') || href.startsWith('//')
IsExternalUrl(href) == HrefMatch[href].external

Directories == {"", "/site", "/site/sub", "/site/sub/sub"}
FileNames == {"a.css", "b.css", "c.css", "gone.css"}

ParentOf(dir) ==
    CASE dir = "/site/sub/sub" -> "/site/sub"
      [] dir = "/site/sub" -> "/site"
      [] OTHER -> ""

\* path.resolve(baseDir, href)
resolve(baseDir, href) ==
    LET m == HrefMatch[href]
        dir == CASE m.dir = "." -> baseDir
                 [] m.dir = "sub" -> baseDir \o "/sub"
                 [] OTHER -> ParentOf(baseDir)
    IN  dir \o "/" \o m.file

\* path.dirname(absPath)
dirname(absPath) ==
    CHOOSE dir \in Directories : \E file \in FileNames : dir \o "/" \o file = absPath

\* The stylesheets of the model and what parseCssBlock finds in each but
\* its imports.
CssPaths == {"/site/a.css", "/site/b.css", "/site/sub/c.css"}

CssRulesOf(absPath) ==
    CASE absPath = "/site/a.css" -> <<Rule(".box-a", <<UnresolvedDecl("color", "red")>>, FALSE)>>
      [] absPath = "/site/b.css" -> <<Rule(".box-b", <<UnresolvedDecl("color", "black")>>, FALSE)>>
      [] OTHER -> <<Rule(".box-c", <<UnresolvedDecl("color", "white")>>, FALSE)>>

CssPropertiesOf(absPath) ==
    CASE absPath = "/site/a.css" -> PropertiesWith("--x", "red")
      [] absPath = "/site/b.css" -> PropertiesWith("--x", "black")
      [] OTHER -> PropertiesWith("--y", "white")

\* The @import lines a stylesheet can hold.
ImportChoices ==
    {<< >>, <<"b.css">>, <<"./a.css">>, <<"sub/c.css", "https://cdn.example.com/x.css">>,
     <<"../a.css", "gone.css">>}

\* parseCssBlock finding no @import in any stylesheet.
parseCssBlock_noImports(absPath, importParams) ==
    [rules |-> CssRulesOf(absPath), customProperties |-> CssPropertiesOf(absPath),
     imports |-> << >>]

\* parseCssBlock(content) for the content of the stylesheet: parseImportUrl
\* gives null for an external URL, which is then not among the imports.
parseCssBlock(absPath, importParams) ==
    [rules |-> CssRulesOf(absPath), customProperties |-> CssPropertiesOf(absPath),
     imports |-> SelectSeq(importParams, LAMBDA url : ~IsExternalUrl(url))]

\* An activation of resolveLinkedCss: its arguments, the index of the href
\* of the loop, and its locals allRules and allProperties.
LinkedFrame(hrefs, baseDir) ==
    [hrefs |-> hrefs, baseDir |-> baseDir, i |-> 1, allRules |-> << >>,
     allProperties |-> NoProperties]

MaxHrefs == 2

TopHrefs == {"a.css", "./a.css", "b.css", "//cdn.example.com/x.css"}

InitLinked ==
    /\ pc = "css-loop"
    /\ PairIdle
    /\ WcagIdle
    /\ VarIdle
    /\ ColorIdle
    /\ FileIdle
    /\ cssDisk \in [CssPaths -> ImportChoices]
    /\ hrefsIn \in UNION {[1..n -> TopHrefs] : n \in 0..MaxHrefs}
    /\ cssStack = <<LinkedFrame(hrefsIn, "/site")>>
    /\ seen = {}
    /\ reads = << >>
    /\ cssOut = None
    /\ HostIdle

\* The activation that runs, and the rest of the stack with the index of
\* its loop moved on.
TopFrame == cssStack[Len(cssStack)]
Advanced(frame) == [frame EXCEPT !.i = frame.i + 1]
CurrentHref == TopFrame.hrefs[TopFrame.i]
CurrentPath == resolve(TopFrame.baseDir, CurrentHref)
ReplaceTop(frame) == [cssStack EXCEPT ![Len(cssStack)] = frame]
InLoop == pc = "css-loop" /\ TopFrame.i <= Len(TopFrame.hrefs)

\* `continue` for an external URL.
SkipExternal ==
    /\ InLoop
    /\ IsExternalUrl(CurrentHref)
    /\ cssStack' = ReplaceTop(Advanced(TopFrame))
    /\ UNCHANGED <<pc, pairVars, wcagVars, varVars, hostVars, colorVars, fileVars, cssDisk, hrefsIn,
                   seen, reads, cssOut>>

\* `if (seen.has(absPath)) continue`
SkipSeen ==
    /\ InLoop
    /\ ~IsExternalUrl(CurrentHref)
    /\ CurrentPath \in seen
    /\ cssStack' = ReplaceTop(Advanced(TopFrame))
    /\ UNCHANGED <<pc, pairVars, wcagVars, varVars, hostVars, colorVars, fileVars, cssDisk, hrefsIn,
                   seen, reads, cssOut>>

\* seen.add(absPath); readFile throws and the catch block continues.
ReadFails ==
    /\ InLoop
    /\ ~IsExternalUrl(CurrentHref)
    /\ CurrentPath \notin seen
    /\ CurrentPath \notin DOMAIN cssDisk
    /\ seen' = seen \cup {CurrentPath}
    /\ reads' = Append(reads, CurrentPath)
    /\ cssStack' = ReplaceTop(Advanced(TopFrame))
    /\ UNCHANGED <<pc, pairVars, wcagVars, varVars, hostVars, colorVars, fileVars, cssDisk, hrefsIn,
                   cssOut>>

\* seen.add(absPath); the file is read and parsed, its rules and properties
\* are added, and the call recurses into its imports if it has any.
ReadAndParse ==
    /\ InLoop
    /\ ~IsExternalUrl(CurrentHref)
    /\ CurrentPath \notin seen
    /\ CurrentPath \in DOMAIN cssDisk
    /\ seen' = seen \cup {CurrentPath}
    /\ reads' = Append(reads, CurrentPath)
    /\ LET parsed == parseCssBlock(CurrentPath, cssDisk[CurrentPath])
           added == [TopFrame EXCEPT !.allRules = @ \o parsed.rules,
                                     !.allProperties = SetAll(@, parsed.customProperties)]
       IN  IF Len(parsed.imports) > 0
           THEN cssStack' = Append(ReplaceTop(added),
                                   LinkedFrame(parsed.imports, dirname(CurrentPath)))
           ELSE cssStack' = ReplaceTop(Advanced(added))
    /\ UNCHANGED <<pc, pairVars, wcagVars, varVars, hostVars, colorVars, fileVars, cssDisk, hrefsIn,
                   cssOut>>

\* A nested call returns: the caller adds nested.rules and
\* nested.customProperties and goes on with its next href.
ReturnNested ==
    /\ pc = "css-loop"
    /\ Len(cssStack) > 1
    /\ TopFrame.i > Len(TopFrame.hrefs)
    /\ LET caller == cssStack[Len(cssStack) - 1]
           merged == [caller EXCEPT !.allRules = @ \o TopFrame.allRules,
                                    !.allProperties = SetAll(@, TopFrame.allProperties)]
       IN  cssStack' = Append(SubSeq(cssStack, 1, Len(cssStack) - 2), Advanced(merged))
    /\ UNCHANGED <<pc, pairVars, wcagVars, varVars, hostVars, colorVars, fileVars, cssDisk, hrefsIn,
                   seen, reads, cssOut>>

\* The top-level call returns { rules: allRules, customProperties: allProperties }.
ReturnLinked ==
    /\ pc = "css-loop"
    /\ Len(cssStack) = 1
    /\ TopFrame.i > Len(TopFrame.hrefs)
    /\ cssOut' = Some([rules |-> TopFrame.allRules,
                       customProperties |-> TopFrame.allProperties])
    /\ pc' = "css-done"
    /\ UNCHANGED <<pairVars, wcagVars, varVars, hostVars, colorVars, fileVars, cssDisk, hrefsIn,
                   cssStack, seen, reads>>

NextLinked ==
    SkipExternal \/ SkipSeen \/ ReadFails \/ ReadAndParse \/ ReturnNested \/ ReturnLinked

SpecLinked == InitLinked /\ [][NextLinked]_vars

\* The promises of readFile settle and the continuations run.
SpecLinkedFair == SpecLinked /\ WF_vars(NextLinked)

(***************************************************************************)
(* The colour parser: one call parseColor(colorIn).                        *)
(***************************************************************************)
InitColor ==
    /\ pc = "color-input"
    /\ colorIn \in ColorTexts
    /\ colorOut = None
    /\ PairIdle
    /\ WcagIdle
    /\ VarIdle
    /\ FileIdle
    /\ CssIdle
    /\ HostIdle

ParseColor ==
    /\ pc = "color-input"
    /\ colorOut' = parseColor(colorIn)
    /\ pc' = "color-done"
    /\ UNCHANGED <<colorIn, pairVars, wcagVars, varVars, hostVars, fileVars, cssVars>>

NextColor == ParseColor

SpecColor == InitColor /\ [][NextColor]_vars

(***************************************************************************)
(* Properties of the colour parser (SpecColor).                            *)
(***************************************************************************)
\* The texts of the model that are a named colour of the table, a hex
\* colour of 3, 4, 6 or 8 hexadecimal digits or a well-formed call of a
\* supported function.
HexDigitsOnly(text) == \A i \in 1..Len(HexChars[text]) : HexChars[text][i] # NotHex
IsColorSyntax(text) ==
    \/ text \in DOMAIN NAMED_COLORS
    \/ text \in DOMAIN HexChars /\ Len(HexChars[text]) \in {3, 4, 6, 8} /\ HexDigitsOnly(text)
    \/ text \in DOMAIN RgbMatch /\ RgbMatch[text] # None
    \/ text \in MixTexts /\ Len(MixParts(text)) = 3

\* C12: parseColor never throws: for every input string it returns an
\* RgbaColor or null, and a string that is not 'transparent', a named
\* colour, a 3/4/6/8-digit hex or a supported functional syntax yields null.
C12_NeverThrows ==
    pc = "color-done" =>
        /\ ~IsThrown(colorOut)
        /\ ~IsColorSyntax(colorIn) => colorOut = None

Returned(outcome) == Len(outcome) = 1

\* C13: every non-null RgbaColor returned by parseColor, whatever the
\* accepted syntax, has integer channels r, g, b within 0..255 and an alpha
\* that is absent or within 0.0..1.0.
C13_ChannelsAndAlphaInRange ==
    (pc = "color-done" /\ Returned(colorOut)) =>
        /\ colorOut[1].r \in 0..255
        /\ colorOut[1].g \in 0..255
        /\ colorOut[1].b \in 0..255
        /\ colorOut[1].a = NoAlpha \/ colorOut[1].a \in 0..AlphaDen

\* The channel value of the named colours used as color-mix() arguments.
GreyOf == [c \in {"white", "black"} |-> IF c = "white" THEN 255 ELSE 0]

\* The percentages by the stated rule: both omitted 50/50; one given as p,
\* the other 100 - p; both given, as given (to be normalized by their sum).
StatedPercents(pct1, pct2) ==
    IF pct1 = None /\ pct2 = None THEN <<50, 50>>
    ELSE IF pct2 = None THEN <<pct1[1], 100 - pct1[1]>>
    ELSE IF pct1 = None THEN <<100 - pct2[1], pct2[1]>>
    ELSE <<pct1[1], pct2[1]>>

\* n = round(x / d), halves rounded up, for d > 0.
IsRounded(n, x, d) == 2 * d * n <= 2 * x + d /\ 2 * x + d < 2 * d * (n + 1)

\* C14: color-mix resolves its percentages as: both omitted 50/50; one
\* given as p, the other 100 - p; both given, normalized to sum to 100; a
\* sum <= 0 makes the mix null.  In srgb each channel is
\* round(c1 * w1 + c2 * w2): white 80% with black is rgb(204, 204, 204) and
\* white with black is rgb(128, 128, 128); an unsupported space yields null.
C14_ColorMixPercentages ==
    (pc = "color-done" /\ colorIn \in MixTexts /\ Len(MixParts(colorIn)) = 3) =>
        LET parts == MixParts(colorIn)
            arg1 == ArgMatch[parts[2]]
            arg2 == ArgMatch[parts[3]]
            p == StatedPercents(arg1.pct, arg2.pct)
        IN  /\ colorIn = "color-mix(in srgb, white 80%, black)" =>
                    colorOut = Some(Rgb(204, 204, 204))
            /\ colorIn = "color-mix(in srgb, white, black)" =>
                    colorOut = Some(Rgb(128, 128, 128))
            /\ ({arg1.colorStr, arg2.colorStr} \subseteq DOMAIN GreyOf) =>
                   IF p[1] + p[2] <= 0 \/ parts[1] # "in srgb" THEN colorOut = None
                   ELSE /\ Returned(colorOut)
                        /\ colorOut[1].a = NoAlpha
                        /\ \A ch \in {colorOut[1].r, colorOut[1].g, colorOut[1].b} :
                               IsRounded(ch, GreyOf[arg1.colorStr] * p[1]
                                                + GreyOf[arg2.colorStr] * p[2], p[1] + p[2])

\* The mix of white 80% with black has returned rgb(204, 204, 204).
C14_Witness ==
    /\ pc = "color-done"
    /\ colorIn = "color-mix(in srgb, white 80%, black)"
    /\ colorOut = Some(Rgb(204, 204, 204))

(***************************************************************************)
(* Properties of the custom-property resolver (SpecVar, SpecVarFair).      *)
(***************************************************************************)

\* The properties whose values a resolution of value reads: the name of a
\* var() that is in the map; the fallback of a var() is read only when its
\* name is not in the map.
RECURSIVE Reads(_)
Reads(value) ==
    UNION {IF value[i].type # "var" THEN {}
           ELSE IF value[i].value \in DOMAIN props THEN {value[i].value}
           ELSE Reads(value[i].fallback) : i \in 1..Len(value)}

\* The properties read, directly or not, when property n is resolved.
RECURSIVE ReadsWithin(_, _)
ReadsWithin(S, k) ==
    IF k = 0 THEN S ELSE ReadsWithin(S \cup UNION {Reads(props[m]) : m \in S}, k - 1)

ReadsFrom(n) == ReadsWithin(Reads(props[n]), Cardinality(DOMAIN props))

OnCycle(n) == n \in DOMAIN props /\ n \in ReadsFrom(n)

ReferencesCycle(value) == \E n \in Reads(value) : OnCycle(n)

\* C10: resolveCustomProperty terminates for every value and every property
\* map, cyclic ones included (the recursion never goes deeper than MAX_DEPTH
\* calls), and returns null for a value that references a property on a cycle.
C10_TerminatesNullOnCycle ==
    /\ <>(pc = "var-done")
    /\ [](Len(stack) <= MAX_DEPTH)
    /\ []((pc = "var-done" /\ ReferencesCycle(callValue)) => ret = None)

\* The call has returned null on the indirect cycle --a: var(--b); --b: var(--a).
C10_Witness ==
    /\ pc = "var-done"
    /\ callValue = <<Var("--a", NoFallback)>>
    /\ {"--a", "--b"} \subseteq DOMAIN props
    /\ props["--a"] = <<Var("--b", NoFallback)>>
    /\ props["--b"] = <<Var("--a", NoFallback)>>
    /\ ret = None

\* What the contract gives for a value: null if a var() of it fails, else
\* the value with every var() replaced by its resolved text.  A var() fails
\* if its property is absent without a fallback or if the resolution of
\* the property's value (of the fallback for an absent property) fails,
\* the depth limit being one way to fail.
RECURSIVE Contract(_, _)
RECURSIVE NodeContract(_, _)
RECURSIVE Replaced(_, _, _)
NodeContract(node, depth) ==
    IF node.type = "word" THEN Some(<<node>>)
    ELSE IF node.value \in DOMAIN props THEN Contract(props[node.value], depth + 1)
    ELSE IF node.fallback # << >> THEN Contract(node.fallback, depth + 1)
    ELSE None
Replaced(value, depth, i) ==
    IF i > Len(value) THEN << >>
    ELSE NodeContract(value[i], depth)[1] \o Replaced(value, depth, i + 1)
Contract(value, depth) ==
    IF depth >= MAX_DEPTH THEN None
    ELSE IF \E i \in 1..Len(value) : NodeContract(value[i], depth) = None THEN None
    ELSE Some(Replaced(value, depth, 1))

VarNodes(value) == {i \in 1..Len(value) : value[i].type = "var"}

\* C11: resolveCustomProperty is all-or-nothing for one value: the result
\* is null if any var() of the value, at top level or nested in another
\* function, names an absent property without fallback or fails to resolve
\* recursively, even when the other var() calls resolve; otherwise every
\* var() is replaced by its resolved text and the rest of the value is kept.
C11_AllOrNothing ==
    pc = "var-done" =>
        /\ ret = Contract(callValue, 0)
        /\ (\E i \in VarNodes(callValue) : NodeContract(callValue[i], 0) = None) => ret = None

\* A color-mix() with two var() calls: the first resolves, the second names
\* an absent property, and the call has returned null.
C11_Witness ==
    /\ pc = "var-done"
    /\ Cardinality(VarNodes(callValue)) = 2
    /\ \E i, j \in VarNodes(callValue) :
        /\ NodeContract(callValue[i], 0) # None
        /\ callValue[j].value \notin DOMAIN props
        /\ callValue[j].fallback = << >>
    /\ ret = None

(***************************************************************************)
(* Properties of the analyzer.                                             *)
(***************************************************************************)

\* C15: no failure while analysing one file aborts the others: analyzeFiles
\* is never rejected, and what it returns holds one FileAnalysisResult per
\* input path, in input order.
C15_NoFailureAbortsTheRun ==
    /\ pc # "files-rejected"
    /\ ~IsThrown(filesOut)
    /\ pc = "files-done" =>
        /\ Len(filesOut[1]) = Len(filePaths)
        /\ \A k \in 1..Len(filePaths) : filesOut[1][k].filePath = filePaths[k]

\* The call the record is about was made with ignore.selectors = ['.brand-*']
\* and has returned a result.
IgnoresBrand(c) ==
    /\ c # NoCall
    /\ options.ignore = Some(IgnoreConfig(<< >>, << >>, <<".brand-*">>))
    /\ Returned(c.out)

HasClass(element, class) ==
    \E k \in 1..Len(elements[element].classes) : elements[element].classes[k] = class

\* What the same call returns when the options hold no ignore configuration.
WithoutIgnore(c) ==
    AnalyzeAlone(c.filePath, [options EXCEPT !.ignore = None], c.before).out[1]

\* C16 as stated: with ignore.selectors = ['.brand-*'] a pair whose element
\* has class brand-badge is absent from the results of analyzeFile and is
\* still counted in the statistics: pairsChecked counts the pairs evaluated
\* before the ignore filter.
C16_CountedBeforeFilter ==
    IgnoresBrand(call) =>
        /\ \A k \in 1..Len(call.out[1].results) :
              ~HasClass(call.out[1].results[k].element, "brand-badge")
        /\ call.out[1].stats.pairsChecked = Len(WithoutIgnore(call).results)

\* C16 amended: with ignore.selectors = ['.brand-*'] the results returned
\* are the evaluated pairs without those of elements with class
\* brand-badge, in the same order; pairsChecked, passing and aaFailing count
\* the results returned only; elementsAnalyzed and unresolvable are what
\* they are without the ignore configuration.
C16_FilteredFromResultsAndCounts ==
    IgnoresBrand(call) =>
        LET result == call.out[1]
            unfiltered == WithoutIgnore(call)
        IN  /\ result.results =
                  SelectSeq(unfiltered.results,
                            LAMBDA r : ~HasClass(r.element, "brand-badge"))
            /\ result.stats.pairsChecked = Len(result.results)
            /\ result.stats.passing + result.stats.aaFailing = Len(result.results)
            /\ result.stats.elementsAnalyzed = unfiltered.stats.elementsAnalyzed
            /\ result.stats.unresolvable = unfiltered.stats.unresolvable

\* A call with ignore.selectors = ['.brand-*'] has returned; the pair of the
\* brand-badge paragraph was evaluated, is not among the results, and
\* pairsChecked is one less than the number of evaluated pairs.
C16_Witness ==
    /\ IgnoresBrand(call)
    /\ \E k \in 1..Len(WithoutIgnore(call).results) :
          HasClass(WithoutIgnore(call).results[k].element, "brand-badge")
    /\ \A k \in 1..Len(call.out[1].results) :
          ~HasClass(call.out[1].results[k].element, "brand-badge")
    /\ call.out[1].stats.pairsChecked + 1 = Len(WithoutIgnore(call).results)
    /\ call.out[1].stats.elementsAnalyzed = Len(PageTree)

\* The four sources of custom properties of a call, the highest priority
\* first: in-file, manually supplied CSS, auto-detected CSS, external tokens.
SourcesByPriority(filePath) ==
    <<Disk[filePath].customProperties,
      OrNoProperties(options.externalCustomProperties),
      Disk[filePath].autoDetectedCss.customProperties,
      OrNoProperties(options.externalTokens)>>

Defining(filePath, name) ==
    {k \in 1..4 : SourcesByPriority(filePath)[k][name] # None}

HighestPriorityValue(filePath, name) ==
    IF Defining(filePath, name) = {} THEN None
    ELSE LET k == CHOOSE k \in Defining(filePath, name) :
                      \A other \in Defining(filePath, name) : k <= other
         IN  SourcesByPriority(filePath)[k][name]

\* C17: the custom-property map a call resolves the declarations with holds,
\* for every key, the value of the highest-priority source that defines it
\* (external tokens < auto-detected CSS < manually supplied CSS < in-file),
\* and no value for a key that no source defines.
C17_MergePriority ==
    (call # NoCall /\ Disk[call.filePath].readable) =>
        \A name \in CustomNames :
            call.allProperties[name] = HighestPriorityValue(call.filePath, name)

\* A call where all four sources define --x and only the tokens define --y:
\* --x has the in-file value and --y the value of the tokens.
C17_Witness ==
    /\ call # NoCall
    /\ Cardinality(Defining(call.filePath, "--x")) = 4
    /\ Defining(call.filePath, "--y") = {4}
    /\ call.allProperties["--x"] = Disk[call.filePath].customProperties["--x"]
    /\ call.allProperties["--x"] # TokenMap["--x"]
    /\ call.allProperties["--y"] = TokenMap["--y"]

\* C18: analyzeFile leaves the external rule list as it was before the
\* call, every declaration with its resolvedValue included.
C18_ExternalRulesUnchanged ==
    call # NoCall => externalCssRules = call.before

\* The external rules as they were given: no declaration resolved.
Fresh(ruleList) ==
    [r \in 1..Len(ruleList) |->
        [ruleList[r] EXCEPT !.declarations =
            [d \in 1..Len(ruleList[r].declarations) |->
                [ruleList[r].declarations[d] EXCEPT !.resolvedValue = None]]]]

\* C19: under every interleaving of two analyzeFile calls that share the
\* options, a call that has ended returned (or threw) what the call alone
\* returns (or throws), whether the external rules are as given or as
\* another call left them.
C19_RunsIndependent ==
    pc = "runs" =>
        \A i \in 1..Len(runs) :
            runs[i].at \in {"returned", "rejected"} =>
                /\ runs[i].out = AnalyzeAlone(runs[i].filePath, options,
                                              Fresh(externalCssRules)).out
                /\ runs[i].out = AnalyzeAlone(runs[i].filePath, options,
                                              externalCssRules).out

\* Both calls have returned; the second to finish found the external rule
\* `p { color: var(--x) }` already resolved by the first, with another
\* value of --x than its own, and the two calls returned different colours
\* for the paragraph.
C19_Witness ==
    /\ pc = "runs"
    /\ \A i \in 1..2 : runs[i].at = "returned" /\ runs[i].out[1].results # << >>
    /\ call # NoCall
    /\ call.before # << >>
    /\ call.before # Fresh(call.before)
    /\ call.before # externalCssRules
    /\ runs[1].out[1].results[1].element = 2
    /\ runs[2].out[1].results[1].element = 2
    /\ runs[1].out[1].results[1].foreground.rgb # runs[2].out[1].results[1].foreground.rgb

(***************************************************************************)
(* Properties of resolveLinkedCss.                                         *)
(***************************************************************************)
\* The paths the hrefs of a file in directory dir name, external URLs left
\* out.
LocalTargets(dir, hrefs) ==
    {resolve(dir, hrefs[k]) : k \in {j \in 1..Len(hrefs) : ~HrefMatch[hrefs[j]].external}}

ImportedBy(absPath) ==
    IF absPath \in DOMAIN cssDisk THEN LocalTargets(dirname(absPath), cssDisk[absPath]) ELSE {}

RECURSIVE ReachableFrom(_)
ReachableFrom(paths) ==
    LET more == paths \cup UNION {ImportedBy(absPath) : absPath \in paths}
    IN  IF more = paths THEN paths ELSE ReachableFrom(more)

\* The paths the top-level hrefs lead to through the imports of readable
\* files.
Reachable == ReachableFrom(LocalTargets("/site", hrefsIn))

Range(seq) == {seq[k] : k \in 1..Len(seq)}

\* C20: resolveLinkedCss terminates for every import graph, circular ones
\* included; no path is read twice in a top-level call; what it returns
\* holds the rules of every reachable readable file, once each, and nothing
\* else; external URLs are never read and unreadable files are read once
\* and skipped, the call returning all the same.
C20_TerminatesReadsOnce ==
    /\ <>(pc = "css-done")
    /\ [](\A j, k \in 1..Len(reads) : reads[j] = reads[k] => j = k)
    /\ [](pc = "css-done" =>
            /\ Returned(cssOut)
            /\ Range(reads) = Reachable
            /\ Range(cssOut[1].rules) =
                  UNION {Range(CssRulesOf(absPath)) : absPath \in Reachable \cap DOMAIN cssDisk}
            /\ Len(cssOut[1].rules) = Cardinality(Reachable \cap DOMAIN cssDisk))

\* a.css imports b.css and b.css imports a.css; the call for a.css and an
\* external URL has returned the rules of both files, each read once.
C20_Witness ==
    /\ pc = "css-done"
    /\ hrefsIn = <<"a.css", "//cdn.example.com/x.css">>
    /\ cssDisk["/site/a.css"] = <<"b.css">>
    /\ cssDisk["/site/b.css"] = <<"./a.css">>
    /\ reads = <<"/site/a.css", "/site/b.css">>
    /\ Len(cssOut[1].rules) = 2

(***************************************************************************)
(* The command line in single-run mode: run() of cli.ts from the parsed    *)
(* arguments to process.exit.  cli holds options.patterns.length, the      *)
(* level, and what fast-glob does with the patterns: it throws, or it      *)
(* returns the list found.                                                 *)
(***************************************************************************)
CliChoices ==
    [patterns : {0, 1}, level : {"aa", "aaa"}, glob : {"throws", "returns"},
     found : {<< >>} \cup PathLists]

InitCli ==
    /\ pc = "cli-start"
    /\ elements = PageTree
    /\ rules = << >> /\ pairs = << >> /\ lookup = NoLookup
    /\ WcagIdle
    /\ VarIdle
    /\ ColorIdle
    /\ options \in OptionChoices
    /\ externalCssRules \in ExternalRuleChoices
    /\ filePaths = << >>
    /\ fileResults = << >>
    /\ filesOut = None
    /\ call = NoCall
    /\ runs = << >>
    /\ CssIdle
    /\ cli \in CliChoices
    /\ cli.patterns = 0 \/ cli.glob = "throws" => cli.found = << >>
    /\ cli.patterns = 0 => cli.glob = "returns"
    /\ exitCode = None
    /\ WatchIdle

\* if (options.patterns.length === 0) { ...; process.exit(2) }
NoFilesSpecified ==
    /\ pc = "cli-start"
    /\ cli.patterns = 0
    /\ exitCode' = Some(2)
    /\ pc' = "cli-exited"
    /\ UNCHANGED <<pairVars, wcagVars, varVars, colorVars, fileVars, cssVars, cli, watchVars>>

\* filePaths = await fg(options.patterns, ...) in its try/catch, and the
\* exit of a run that found no file.
ResolvePatterns ==
    /\ pc = "cli-start"
    /\ cli.patterns > 0
    /\ IF cli.glob = "throws"
       THEN exitCode' = Some(2) /\ pc' = "cli-exited" /\ UNCHANGED filePaths
       ELSE IF Len(cli.found) = 0
            THEN exitCode' = Some(0) /\ pc' = "cli-exited" /\ UNCHANGED filePaths
            ELSE filePaths' = cli.found /\ pc' = "files-loop" /\ UNCHANGED exitCode
    /\ UNCHANGED <<pairVars, wcagVars, varVars, colorVars, cssVars, options, externalCssRules,
                   fileResults, filesOut, call, runs, cli, watchVars>>

\* The value runAnalysis returns: some result of some file misses the level.
hasFailures(results, level) ==
    \E i \in 1..Len(results) : \E k \in 1..Len(results[i].results) :
        IF level = "aaa" THEN ~results[i].results[k].meetsAAA
        ELSE ~results[i].results[k].meetsAA

\* try { hasFailures = await runAnalysis(...); process.exit(hasFailures ? 1 : 0) }
\* catch (err) { ...; process.exit(2) }, once analyzeFiles has settled.
ExitAfterAnalysis ==
    /\ pc \in {"files-done", "files-rejected"}
    /\ exitCode' = IF IsThrown(filesOut) THEN Some(2)
                   ELSE IF hasFailures(filesOut[1], cli.level) THEN Some(1) ELSE Some(0)
    /\ pc' = "cli-exited"
    /\ UNCHANGED <<pairVars, wcagVars, varVars, colorVars, fileVars, cssVars, cli, watchVars>>

NextCli ==
    \/ NoFilesSpecified
    \/ ResolvePatterns
    \/ AnalyzeNextFile
    \/ ReturnFileResults
    \/ ExitAfterAnalysis

SpecCli == InitCli /\ [][NextCli]_vars

(***************************************************************************)
(* Watch mode: runWatch of cli.ts and the astro:server:setup hook of       *)
(* integration.ts after their initial analysis.  Both keep one variable    *)
(* debounceTimer for all files; a watcher event clears the pending timeout *)
(* and sets a new one, whose callback calls analyzeFile and awaits it.     *)
(* watchLog records the watcher events and the calls of analyzeFile.       *)
(***************************************************************************)
MaxEvents == 3

WatchedFiles == {"plain.astro", "own.astro", "proto.astro"}

\* The dev server watches srcDir, which holds other files as well.
SrcDirFiles == WatchedFiles \cup {"global.css"}

\* The files created while the dev server runs: none of InitialFiles.
NewFiles == {"own.astro"}

\* filePath.endsWith('.astro')
EndsWithAstro(filePath) == filePath \in Paths

\* The analyzeOptions of a watcher started without tokens, css or ignore.
WatchOptions == [externalTokens |-> None, externalCustomProperties |-> None, ignore |-> None]

\* The files of the initial analysis, which analyzeFiles went through.
InitialFiles == {<< >>, <<"plain.astro">>}

LogEntry(kind, filePath) == [kind |-> kind, filePath |-> filePath]

Events == Len(SelectSeq(watchLog, LAMBDA entry : entry.kind # "analyze"))

RemoveAt(seq, i) == SubSeq(seq, 1, i - 1) \o SubSeq(seq, i + 1, Len(seq))

InitWatch ==
    /\ pc = "watching"
    /\ elements = PageTree
    /\ rules = << >> /\ pairs = << >> /\ lookup = NoLookup
    /\ WcagIdle
    /\ VarIdle
    /\ ColorIdle
    /\ options = WatchOptions
    /\ externalCssRules = << >>
    /\ filePaths \in InitialFiles
    /\ fileResults = << >>
    /\ filesOut = None
    /\ call = NoCall
    /\ runs = << >>
    /\ CssIdle
    /\ CliIdle
    /\ mode \in {"cli", "dev-server"}
    /\ timer = None
    /\ analysing = << >>
    /\ latestResults =
          IF mode = "dev-server"
          THEN [k \in 1..Len(filePaths) |->
                   AnalyzeAlone(filePaths[k], options, externalCssRules).out[1]]
          ELSE << >>
    /\ watchLog = << >>

\* cli.ts handleChange(filePath, event), called for 'change' and 'unlink'.
HandleChange(filePath, event) ==
    /\ pc = "watching"
    /\ mode = "cli"
    /\ Events < MaxEvents
    /\ timer' = Some([filePath |-> filePath, event |-> event])
    /\ watchLog' = Append(watchLog, LogEntry(event, filePath))
    /\ UNCHANGED <<pc, pairVars, wcagVars, varVars, colorVars, fileVars, cssVars, cliVars,
                   mode, analysing, latestResults>>

\* integration.ts handleFile(filePath), called for 'change' and 'add'.
HandleFile(filePath, event) ==
    /\ pc = "watching"
    /\ mode = "dev-server"
    /\ Events < MaxEvents
    /\ IF EndsWithAstro(filePath)
       THEN timer' = Some([filePath |-> filePath, event |-> event])
       ELSE UNCHANGED timer
    /\ watchLog' = Append(watchLog, LogEntry(event, filePath))
    /\ UNCHANGED <<pc, pairVars, wcagVars, varVars, colorVars, fileVars, cssVars, cliVars,
                   mode, analysing, latestResults>>

\* The callback of the timeout up to its await: nothing more for 'unlink',
\* the call of analyzeFile otherwise.
TimerFires ==
    /\ pc = "watching"
    /\ timer # None
    /\ timer' = None
    /\ IF timer[1].event = "unlink"
       THEN UNCHANGED <<analysing, watchLog>>
       ELSE /\ analysing' = Append(analysing, timer[1].filePath)
            /\ watchLog' = Append(watchLog, LogEntry("analyze", timer[1].filePath))
    /\ UNCHANGED <<pc, pairVars, wcagVars, varVars, colorVars, fileVars, cssVars, cliVars,
                   mode, latestResults>>

\* The store with every result pushed.
StoreResult_alwaysPush(store, result) == Append(store, result)

\* idx = latestResults.findIndex(r => r.filePath === result.filePath);
\* latestResults[idx] = result when idx >= 0, latestResults.push(result) otherwise.
StoreResult(store, result) ==
    IF \E k \in 1..Len(store) : store[k].filePath = result.filePath
    THEN [store EXCEPT ![CHOOSE k \in 1..Len(store) :
                            /\ store[k].filePath = result.filePath
                            /\ \A j \in 1..(k - 1) : store[j].filePath # result.filePath]
                       = result]
    ELSE Append(store, result)

\* The continuation of `await analyzeFile(filePath, ...)` of the i-th call in
\* flight: the report, in the dev server the update of the store, or the
\* catch block.
AnalysisSettles(i) ==
    /\ pc = "watching"
    /\ i \in 1..Len(analysing)
    /\ \E analysis \in {AnalyzeAlone(analysing[i], options, externalCssRules)} :
          /\ externalCssRules' = analysis.externalCssRules
          /\ IF mode = "dev-server" /\ Returned(analysis.out)
             THEN latestResults' = StoreResult(latestResults, analysis.out[1])
             ELSE UNCHANGED latestResults
    /\ analysing' = RemoveAt(analysing, i)
    /\ UNCHANGED <<pc, pairVars, wcagVars, varVars, colorVars, cssVars, cliVars, options,
                   filePaths, fileResults, filesOut, call, runs, mode, timer, watchLog>>

NextWatch ==
    \/ \E filePath \in WatchedFiles : \E event \in {"change", "unlink"} :
          HandleChange(filePath, event)
    \/ \E filePath \in SrcDirFiles : HandleFile(filePath, "change")
    \/ \E filePath \in NewFiles : HandleFile(filePath, "add")
    \/ TimerFires
    \/ \E i \in 1..MaxEvents : AnalysisSettles(i)

SpecWatch == InitWatch /\ [][NextWatch]_vars

\* A timeout that is not cleared fires, and a call of analyzeFile settles:
\* weak fairness of TimerFires and of the continuations, which are enabled
\* exactly when a call is in flight.
CallbackPending == analysing # << >>

Settles == \E i \in 1..MaxEvents : AnalysisSettles(i)

SpecWatchFair ==
    SpecWatch /\ WF_vars(TimerFires) /\ (<>[]CallbackPending => []<><<Settles>>_vars)

(***************************************************************************)
(* The selector matcher on its own: one rule with a combinator selector    *)
(* and a document of nested elements, each the only child of the one       *)
(* before it (matchesSelector follows parentElement only).  The call is    *)
(* findBestDeclaration(element, rules, 'color'), which finds the           *)
(* declaration of the rule exactly when matchesSelector holds.             *)
(***************************************************************************)
MaxNodes == 4

MatchTags == {"body", "div", "p", "h2"}

DescentSelectors ==
    {"h2", "div h2", "div > h2", "body > h2", "body > div h2", "body div > h2",
     "div > div h2"}

SiblingSelectors == {"p + h2", "p + div > h2", "div > p + h2", "p ~ div h2", "p + body > div h2"}

NestedElements(tags) == [i \in 1..Len(tags) |-> PageElement(tags[i], << >>, i - 1)]

InitMatch ==
    /\ pc = "cascade-input"
    /\ \E n \in 1..MaxNodes : \E tags \in [1..n -> MatchTags] :
          elements = NestedElements(tags)
    /\ \E selector \in DescentSelectors \cup SiblingSelectors :
          rules = <<Rule(selector, <<Decl("color", "red")>>, FALSE)>>
    /\ pairs = << >>
    /\ lookup = NoLookup
    /\ WcagIdle
    /\ VarIdle
    /\ RestIdle

NextMatch == \E e \in 1..Len(elements) : FindBestDeclaration(e, "color")

SpecMatch == InitMatch /\ [][NextMatch]_vars

(***************************************************************************)
(* The root-level background: buildColorPairs for a component whose        *)
(* markup holds no body element, with a rule list in the order analyzeFile *)
(* merges it (auto-detected, then manual CSS, then the <style> blocks of   *)
(* the file), so that a rule further on in the list has the higher         *)
(* priority.                                                               *)
(***************************************************************************)
WithInlineColor(element, value) ==
    [element EXCEPT !.inlineStyles = Some([NoInlineStyles EXCEPT !.color = Some(value)])]

Components ==
    {<<WithInlineColor(PageElement("h2", << >>, 0), "red")>>,
     <<PageElement("div", << >>, 0), WithInlineColor(PageElement("h2", << >>, 1), "red")>>,
     <<PageElement("div", << >>, 0), PageElement("h2", <<"text-white">>, 1)>>}

RootRules ==
    {Rule(selector, <<Decl("background-color", value)>>, FALSE) :
        selector \in ROOT_SELECTORS, value \in {"black", "#767676"}}
    \cup {Rule("body", <<Decl("font-size", "100%"), Decl("background", "red")>>, FALSE),
          Rule("html", <<Decl("background-color", "white")>>, TRUE),
          Rule("div", <<Decl("background-color", "white")>>, FALSE)}

RuleLists == UNION {[1..n -> RootRules] : n \in 0..MaxRules}

InitRoot ==
    /\ pc = "pairs-input"
    /\ elements \in Components
    /\ rules \in RuleLists
    /\ pairs = << >>
    /\ lookup = NoLookup
    /\ WcagIdle
    /\ VarIdle
    /\ RestIdle

NextRoot == BuildColorPairs

SpecRoot == InitRoot /\ [][NextRoot]_vars

(***************************************************************************)
(* The resolver on chains of references: the call                          *)
(* resolveCustomProperty('var(--a1)', props) where --a1 is var(--a2), ...  *)
(* and the last property --an is a literal, a reference to a property that *)
(* is not defined, or a reference back to --a1.  A chain of length 0 is    *)
(* the call with the literal itself.                                       *)
(***************************************************************************)
MaxChain == 11

NameOf(i) == "--a" \o ToString(i)

Literal == <<Word("#767676")>>

ChainEnds == {Literal, <<Var("--missing", NoFallback)>>, <<Var(NameOf(1), NoFallback)>>}

Chain(n, end) ==
    [name \in {NameOf(i) : i \in 1..n} |->
        IF name = NameOf(n) THEN end
        ELSE <<Var(NameOf((CHOOSE i \in 1..n : NameOf(i) = name) + 1), NoFallback)>>]

InitChain ==
    /\ pc = "var-input"
    /\ \E n \in 0..MaxChain : \E end \in ChainEnds :
          /\ props = Chain(n, end)
          /\ callValue = IF n = 0 THEN Literal ELSE <<Var(NameOf(1), NoFallback)>>
    /\ stack = << >>
    /\ ret = None
    /\ PairIdle
    /\ WcagIdle
    /\ RestIdle

\* A chain holds var() calls and a literal that is returned at once: the
\* walk never visits a word node.
NextChain == Resolve \/ WalkVar \/ Return

SpecChain == InitChain /\ [][NextChain]_vars

(***************************************************************************)
(* The luminance on its own: one call relativeLuminance(fgIn) for every    *)
(* 8-bit value of the red channel and values on both sides of the          *)
(* threshold in the other two.                                             *)
(***************************************************************************)
LumColors == {Rgb(r, g, b) : r \in 0..255, g \in {0, 10, 11, 255}, b \in {0, 10, 11, 255}}

InitLum ==
    /\ pc = "lum-input"
    /\ fgIn \in LumColors
    /\ bgIn = Rgb(0, 0, 0) /\ sizeIn = None /\ weightIn = None
    /\ evalOut = NoEvaluation
    /\ lumOut = None
    /\ PairIdle
    /\ VarIdle
    /\ RestIdle

RelativeLuminance ==
    /\ pc = "lum-input"
    /\ lumOut' = Some(relativeLuminance(fgIn))
    /\ pc' = "lum-done"
    /\ UNCHANGED <<fgIn, bgIn, sizeIn, weightIn, evalOut, pairVars, varVars, restVars>>

NextLum == RelativeLuminance

SpecLum == InitLum /\ [][NextLum]_vars

(***************************************************************************)
(* Properties of the command line.                                         *)
(***************************************************************************)

\* An error occurred during the run: no pattern was given, fast-glob threw,
\* analyzeFiles was rejected, or a file could not be parsed.
ErrorOccurred ==
    \/ cli.patterns = 0
    \/ cli.glob = "throws"
    \/ IsThrown(filesOut)
    \/ /\ Returned(filesOut)
       /\ \E i \in 1..Len(filesOut[1]) : \E k \in 1..Len(filesOut[1][i].errors) :
             filesOut[1][i].errors[k].type = "parse-error"

\* C21: in single-run mode the exit code is 2 whenever an error occurred
\* during the analysis (no file pattern included); otherwise it is 1 when at
\* least one evaluated pair misses the requested level and 0 when every
\* pair meets it.
C21_ExitCodes ==
    pc = "cli-exited" =>
        exitCode = IF ErrorOccurred THEN Some(2)
                   ELSE IF Returned(filesOut) /\ hasFailures(filesOut[1], cli.level)
                        THEN Some(1)
                        ELSE Some(0)

(***************************************************************************)
(* Properties of watch mode.                                               *)
(***************************************************************************)

\* C22: in watch mode every change event on a watched .astro file is
\* followed by a call of analyzeFile for that file: in the end every change
\* entry of the log has a later analyze entry with its path.
C22_EveryChangeReanalysed ==
    <>[](\A i \in 1..Len(watchLog) :
            watchLog[i].kind = "change" /\ EndsWithAstro(watchLog[i].filePath) =>
                \E j \in (i + 1)..Len(watchLog) :
                    /\ watchLog[j].kind = "analyze"
                    /\ watchLog[j].filePath = watchLog[i].filePath)

UniquePaths(store) ==
    \A i, j \in 1..Len(store) : i # j => store[i].filePath # store[j].filePath

\* The store after a handler for filePath has finished: its entry replaced
\* in place when there was one, a new last entry otherwise, the entries of
\* the other files as they were.
ReplacedOrAppended(old, new, filePath) ==
    IF \E k \in 1..Len(old) : old[k].filePath = filePath
    THEN /\ Len(new) = Len(old)
         /\ \A k \in 1..Len(old) :
               IF old[k].filePath = filePath THEN new[k].filePath = filePath
               ELSE new[k] = old[k]
    ELSE /\ Len(new) = Len(old) + 1
         /\ SubSeq(new, 1, Len(old)) = old
         /\ new[Len(new)].filePath = filePath

\* C30: in the dev server latestResults never holds two entries with the
\* same file path, whatever the order in which the handlers in flight
\* finish; a step changes the store only by replacing the entry of the file
\* of a call in flight or by appending an entry for it, and a call that
\* returns a result leaves an entry for its file.
C30_OneEntryPerFile ==
    /\ [](mode = "dev-server" => UniquePaths(latestResults))
    /\ [][/\ latestResults' # latestResults =>
                \E i \in 1..Len(analysing) :
                    ReplacedOrAppended(latestResults, latestResults', analysing[i])
          /\ \A i \in 1..Len(analysing) :
                (/\ mode = "dev-server"
                 /\ analysing' = RemoveAt(analysing, i)
                 /\ analysing[i] # "proto.astro") =>
                    \E k \in 1..Len(latestResults') :
                        latestResults'[k].filePath = analysing[i]]_vars

\* Two handlers for the same file were in flight together and have both
\* finished, a handler of another file as well: the store holds one entry
\* for each of the two files.
C30_Witness ==
    /\ mode = "dev-server"
    /\ analysing = << >>
    /\ \E i, j \in 1..Len(watchLog) :
          /\ j = i + 2
          /\ watchLog[i] = LogEntry("analyze", "own.astro")
          /\ watchLog[j] = LogEntry("analyze", "own.astro")
    /\ \E k \in 1..Len(latestResults) : latestResults[k].filePath = "own.astro"
    /\ \E k \in 1..Len(latestResults) : latestResults[k].filePath = "plain.astro"

(***************************************************************************)
(* Properties of the selector matcher (SpecMatch).                         *)
(***************************************************************************)
\* The left context from entry k of ancestors on can be satisfied in the
\* tree above current: a child combinator by the parent, a descendant
\* combinator by some strict ancestor from which the rest can be satisfied.
RECURSIVE ContextSatisfied(_, _, _)
ContextSatisfied(current, ancestors, k) ==
    IF k > Len(ancestors) THEN TRUE
    ELSE IF ancestors[k].combinator = ">"
    THEN /\ elements[current].parentElement # 0
         /\ matchesPart(elements[current].parentElement, ancestors[k].part)
         /\ ContextSatisfied(elements[current].parentElement, ancestors, k + 1)
    ELSE \E above \in AncestorsOf(current) :
            /\ matchesPart(above, ancestors[k].part)
            /\ ContextSatisfied(above, ancestors, k + 1)

\* C23: an element matches a selector of descendant and child combinators
\* exactly when its target part matches the element and the left context
\* can be satisfied in the tree: the immediate parent for a child
\* combinator, some strict ancestor for a descendant combinator.
C23_MatchesIffContextSatisfiable ==
    (pc = "cascade-done" /\ rules[1].selector \in DescentSelectors) =>
        LET selector == parseSelector(rules[1].selector)[1]
        IN  lookup.result # None <=>
                /\ matchesPart(lookup.element, selector.target)
                /\ ContextSatisfied(lookup.element, selector.ancestors, 1)

RightOfSibling ==
    [sel \in SiblingSelectors |->
        CASE sel = "p + h2"            -> "h2"
          [] sel = "div > p + h2"      -> "h2"
          [] sel = "p + div > h2"      -> "div > h2"
          [] sel = "p ~ div h2"        -> "div h2"
          [] sel = "p + body > div h2" -> "body > div h2"]

HasBackground(element) ==
    \/ Truthy(InlineStyle(element, "backgroundColor"))
    \/ resolveTailwindBackground(elements[element].classes) # None
    \/ findBestDeclaration(element, rules, "background-color") # None

\* The nearest of element e and its ancestors that has a background, 0 if none.
RECURSIVE NearestWithBackground(_)
NearestWithBackground(e) ==
    IF e = 0 THEN 0
    ELSE IF HasBackground(e) THEN e
    ELSE NearestWithBackground(elements[e].parentElement)

\* The places <<rule, declaration>> of the background declarations of the
\* root-level rules that are not ignored.
RootDeclarations ==
    {ref \in {<<r, d>> : r \in 1..Len(rules), d \in 1..MaxRules} :
        /\ ~rules[ref[1]].ignored
        /\ rules[ref[1]].selector \in ROOT_SELECTORS
        /\ ref[2] <= Len(rules[ref[1]].declarations)
        /\ rules[ref[1]].declarations[ref[2]].property \in {"background-color", "background"}}

\* The one with the highest priority: the last in the merged list.
WinningRootDeclaration ==
    CHOOSE ref \in RootDeclarations :
        \A other \in RootDeclarations :
            other[1] < ref[1] \/ (other[1] = ref[1] /\ other[2] <= ref[2])

\* C25: when root-level rules that are not ignored declare a background,
\* the fallback for an element without a background on itself or on an
\* ancestor is the declaration that wins by the priority of the merged
\* list: a later rule wins over an earlier one.
C25_RootBackgroundByPriority ==
    pc = "pairs-done" =>
        \A k \in 1..Len(pairs) :
            (/\ ~HasOwnBackground(pairs[k].element)
             /\ BackgroundAncestors(pairs[k].element) = {}
             /\ RootDeclarations # {}) =>
                pairs[k].background.original =
                    rules[WinningRootDeclaration[1]].declarations[WinningRootDeclaration[2]].value

IsTranslucent(info) ==
    info.rgb # None /\ info.rgb[1].a # NoAlpha /\ info.rgb[1].a < AlphaDen

\* round(c * a + behind * (1 - a)) for each channel of colour over behind.
Over(colour, behind) ==
    Rgb(Round(colour.r * colour.a + behind.r * (AlphaDen - colour.a), AlphaDen),
        Round(colour.g * colour.a + behind.g * (AlphaDen - colour.a), AlphaDen),
        Round(colour.b * colour.a + behind.b * (AlphaDen - colour.a), AlphaDen))

\* C26: a resolved background with alpha below 1 is composited onto the
\* next surface behind the element that supplied it: the element's own
\* translucent background onto the nearest ancestor background (then root,
\* then white), a translucent background inherited from ancestor A onto the
\* background found above A (then root, then white).  Stated for surfaces
\* that have a colour.
C26_CompositedBehindSupplier ==
    pc = "pairs-done" =>
        \A k \in PairIndexes :
            LET e == pairs[k].element
                own == OwnColor(e, rules, "background-color", "backgroundColor")
                inherited == findAncestorBackground(e, rules)
            IN  /\ (own # None /\ IsTranslucent(own[1])
                    /\ SurfaceBehind(e, rules).rgb # None) =>
                        pairs[k].background.rgb =
                            Some(Over(own[1].rgb[1], SurfaceBehind(e, rules).rgb[1]))
                /\ (own = None /\ inherited # None /\ IsTranslucent(inherited[1])) =>
                        \A a \in BackgroundAncestors(e) :
                            (IsNearestBackgroundAncestor(a, e)
                             /\ SurfaceBehind(a, rules).rgb # None) =>
                                pairs[k].background.rgb =
                                    Some(Over(inherited[1].rgb[1],
                                              SurfaceBehind(a, rules).rgb[1]))

(***************************************************************************)
(* Properties of the resolver on chains (SpecChain).                       *)
(***************************************************************************)
ChainLength == Cardinality(DOMAIN props)

EndsInLiteral == ChainLength = 0 \/ props[NameOf(ChainLength)] = Literal

\* C27: a chain of references that ends in a literal resolves to that
\* literal for every length up to the depth cap MAX_DEPTH, and a value
\* without var() is returned as it is; null is returned only when the chain
\* is longer than the cap, runs in a cycle, or ends in an undefined property.
C27_ChainsUpToCapResolve ==
    pc = "var-done" =>
        /\ (EndsInLiteral /\ ChainLength <= MAX_DEPTH) => ret = Some(Literal)
        /\ ret = None => (~EndsInLiteral \/ ChainLength > MAX_DEPTH)

(***************************************************************************)
(* Properties of the statistics of analyzeFile (SpecFiles).                *)
(***************************************************************************)
\* The pairs buildColorPairs returned in the call the record is about,
\* << >> when the file could not be parsed.
BuiltPairs(c) ==
    IF IsThrown(parseAstroFile(c.filePath)) THEN << >>
    ELSE buildColorPairs(
             resolveDeclarationValues(
                 AllRules(Disk[c.filePath].autoDetectedCss, c.before,
                          parseAstroFile(c.filePath)[1]),
                 c.allProperties))[1]

ColorErrors(result) ==
    SelectSeq(result.errors, LAMBDA error : error.type = "color-resolve-error")

OfElement(seq, element) == Len(SelectSeq(seq, LAMBDA entry : entry.element = element))

\* C28: in every FileAnalysisResult of analyzeFile pairsChecked is the
\* number of results returned and equals passing + aaFailing,
\* aaaOnlyFailing is at most passing, unresolvable is the number of
\* color-resolve-error entries, and every built pair was either evaluated
\* (a result before the ignore filter) or recorded as one
\* color-resolve-error, the latter exactly when its foreground or
\* background rgb is null.
C28_StatsConsistent ==
    (call # NoCall /\ Returned(call.out)) =>
        LET result == call.out[1]
            evaluated == WithoutIgnore(call).results
            built == BuiltPairs(call)
        IN  /\ result.stats.pairsChecked = Len(result.results)
            /\ result.stats.pairsChecked = result.stats.passing + result.stats.aaFailing
            /\ result.stats.aaaOnlyFailing <= result.stats.passing
            /\ result.stats.unresolvable = Len(ColorErrors(result))
            /\ Len(evaluated) + Len(ColorErrors(result)) = Len(built)
            /\ \A k \in 1..Len(built) :
                  /\ OfElement(evaluated, built[k].element)
                        = (IF IsUnresolvable(built[k]) THEN 0 ELSE 1)
                  /\ OfElement(ColorErrors(result), built[k].element)
                        = (IF IsUnresolvable(built[k]) THEN 1 ELSE 0)

\* A call has returned a result with a color-resolve-error for one built
\* pair and with an evaluated pair that the ignore filter removed.
C28_Witness ==
    /\ call # NoCall
    /\ Returned(call.out)
    /\ Len(ColorErrors(call.out[1])) > 0
    /\ Len(call.out[1].results) < Len(WithoutIgnore(call).results)
    /\ Len(BuiltPairs(call)) > Len(ColorErrors(call.out[1]))

(***************************************************************************)
(* Properties of the luminance (SpecLum).                                  *)
(***************************************************************************)
\* c / 255 <= 0.04045, both sides times 255 * 100000.
InStandardLinearSegment(c) == c * 100000 <= 4045 * 255

\* The sRGB linearization with the threshold 0.04045, in units of 1/LumScale.
StandardLinear(c) ==
    IF InStandardLinearSegment(c) THEN Round(c * LumScale * 100, 255 * 1292)
    ELSE PowSegment[c + 1]

\* C29: for every 8-bit channel value relativeLuminance uses the linear
\* segment (c/255)/12.92 exactly when c/255 <= 0.04045 and the power
\* segment otherwise; black has luminance 0 and white has luminance 1.
C29_StandardLinearization ==
    pc = "lum-done" =>
        /\ lumOut = Some((2126 * StandardLinear(fgIn.r) + 7152 * StandardLinear(fgIn.g)
                              + 722 * StandardLinear(fgIn.b)) \div 10000)
        /\ \A c \in {fgIn.r, fgIn.g, fgIn.b} : linearize(c) = StandardLinear(c)
        /\ fgIn = Rgb(0, 0, 0) => lumOut = Some(0)
        /\ fgIn = Rgb(255, 255, 255) => lumOut = Some(LumScale)

\* The luminance of a colour whose channels lie on both sides of the
\* threshold was computed: 10 is the last value of the linear segment and 11
\* the first of the power segment.
C29_Witness ==
    /\ pc = "lum-done"
    /\ fgIn = Rgb(10, 11, 10)
    /\ InStandardLinearSegment(fgIn.r) /\ ~InStandardLinearSegment(fgIn.g)
    /\ lumOut # None
====
